---- MODULE Spec2Model ----
(***************************************************************************)
(* Replication core of the key-value server: master client connections     *)
(* (Connection::handle / handle_command), the replication broadcast        *)
(* (tokio broadcast channel), the promoted replica links (Server::start),  *)
(* and the replica process (Replica::start / handle / handle_command).     *)
(***************************************************************************)
EXTENDS Integers, Sequences, FiniteSets, TLC

\* ------------------------------------------------------------------ bounds
\* SET commands the master clients may execute in one behaviour.
MaxWrites == 2
\* WAIT commands the master clients may execute in one behaviour.
MaxWaits == 1
\* SET commands of the single client of the slow-replica specification.
LagWrites == 34
\* SET commands the master clients may execute in the WAIT-progress specification.
WaitWrites == 1
\* commands written to the replica's socket in the command-stream specification.
MaxStream == 3
\* REPLCONF ACK frames in flight from a peer in the acknowledgement specification.
MaxPeerAcks == 3
\* elements of an array handed to the codec
MaxItems == 2
\* entries of a stream
MaxXAdds == 3
MaxPairs == 2

\* ------------------------------------------------------- program constants
\* broadcast::channel(32)
ChannelCapacity == 32
\* empty_rdb.len()
EmptyRdbLen == 88

\* ------------------------------------------------------------ small domains
Clients == {"c1", "c2"}
Replicas == {"r1"}
\* Option<i64>: None is <<>>, Some(ms) is <<ms>>
NoExpiry == <<>>
\* the SET key value [PX ms] commands each client sends
SetArgs(c) ==
    IF c = "c1" THEN {<<"k", "a", NoExpiry>>} ELSE {<<"k", "bb", <<100>>>>}
\* the numreplicas arguments of the WAIT commands each client sends
WaitArgs(c) == IF c = "c1" THEN {1, 2} ELSE {}

VARIABLES
    db,                  \* master Keyspace: key -> value
    master_repl_offset,  \* Server::replication_offset
    number_of_replicas,  \* Server::number_of_replicas
    replica_offsets,     \* Server::replica_offsets: replica peer -> acked offset
    chan,                \* every value sent on the propagation broadcast, in order
    nwrites,             \* number of SETs applied to the master Keyspace so far
    nwaits,              \* number of WAITs started so far
    conn,                \* per client connection: position in handle_command
    reply,               \* per client connection: the last reply written
    link,                \* per replica peer: the master-side connection's state
    rx,                  \* per replica peer: cursor of its broadcast receiver
    sock,                \* per replica peer: broadcast positions written to its socket
    acks,                \* per replica peer: ACK offsets in flight to the master
    replica,             \* per replica process: pc, bytes_processed, db, frames read
    hs,                  \* per replica peer: the handshake on its connection
    expiries,            \* the master's ExpiryIndex: key -> expiry of its last SET PX
    timers,              \* the expiry tasks spawned by SET, in spawn order
    io,                  \* per client connection: Connection::handle's buffer and traffic
    rbuf,                \* per replica: Replica::handle's buffer and loop position
    codec,               \* a frame, its encoding and what the parser makes of it
    streams              \* the Keyspace's Stream values: key -> entries, oldest first

sideVars == <<expiries, timers, io, codec, streams, rbuf>>
vars == <<db, master_repl_offset, number_of_replicas, replica_offsets, chan,
          nwrites, nwaits, conn, reply, link, rx, sock, acks, replica, hs,
          expiries, timers, io, codec, streams, rbuf>>

\* ------------------------------------------------------------------- frames
SimpleString(s) == [t |-> "SimpleString", s |-> s]
SimpleError(s) == [t |-> "SimpleError", s |-> s]
BulkString(s) == [t |-> "BulkString", s |-> s]
Integer(i) == [t |-> "Integer", i |-> i]
Array(a) == [t |-> "Array", a |-> a]

RECURSIVE ILog10(_)
ILog10(n) == IF n < 10 THEN 0 ELSE 1 + ILog10(n \div 10)

num_digits(n) ==
    IF n = 0 THEN 1
    ELSE ILog10(IF n < 0 THEN -n ELSE n) + 1

\* number of characters format!("{}", n) produces
DecimalLen(n) ==
    IF n < 0 THEN 1 + ILog10(-n) + 1 ELSE ILog10(n) + 1

RECURSIVE RespLen(_)
RECURSIVE SumRespLen(_)
SumRespLen(a) ==
    IF a = <<>> THEN 0 ELSE RespLen(Head(a)) + SumRespLen(Tail(a))

\* Resp::len
RespLen(f) ==
    CASE f.t = "SimpleString" -> Len(f.s) + 2 + 1
      [] f.t = "SimpleError" -> Len(f.s) + 2 + 1
      [] f.t = "Integer" -> 1 + num_digits(f.i) + (IF f.i < 0 THEN 1 ELSE 0) + 2
      [] f.t = "BulkString" -> 1 + num_digits(Len(f.s)) + 2 + Len(f.s) + 2
      [] f.t = "Array" -> 1 + num_digits(Len(f.a)) + 2 + SumRespLen(f.a)

RECURSIVE EncodeLen(_)
RECURSIVE SumEncodeLen(_)
SumEncodeLen(a) ==
    IF a = <<>> THEN 0 ELSE EncodeLen(Head(a)) + SumEncodeLen(Tail(a))

\* number of bytes Resp::encode pushes into its buffer
EncodeLen(f) ==
    CASE f.t = "SimpleString" -> 1 + Len(f.s) + 2
      [] f.t = "SimpleError" -> 1 + Len(f.s) + 2
      [] f.t = "Integer" -> 1 + DecimalLen(f.i) + 2
      [] f.t = "BulkString" ->
            IF f.s # "" THEN 1 + DecimalLen(Len(f.s)) + 2 + Len(f.s) + 2
            ELSE 1 + DecimalLen(-1) + 2
      [] f.t = "Array" -> 1 + DecimalLen(Len(f.a)) + 2 + SumEncodeLen(f.a)

RECURSIVE ParsedLen(_)
RECURSIVE SumParsedLen(_)
SumParsedLen(a) ==
    IF a = <<>> THEN 0 ELSE ParsedLen(Head(a)) + SumParsedLen(Tail(a))

\* number of bytes Resp::parse_inner consumes from the encoding of f
\* (input.len() - rest.len()); bulk strings here are never empty
ParsedLen(f) ==
    CASE f.t = "Integer" -> 1 + DecimalLen(f.i) + 2
      [] f.t = "BulkString" -> 6 + Len(f.s) + ILog10(Len(f.s))
      [] f.t = "Array" -> 1 + DecimalLen(Len(f.a)) + 2 + SumParsedLen(f.a)

\* ---------------------------------------------------------------- the codec
\* Bytes are one-character strings and a byte string is a sequence of them;
\* the text of a frame handed to the codec is the sequence of its bytes.
CTRLF == <<"\r", "\n">>
DigitChars == <<"0", "1", "2", "3", "4", "5", "6", "7", "8", "9">>

\* format!("{}", n) for n >= 0
RECURSIVE Digits(_)
Digits(n) ==
    IF n < 10 THEN <<DigitChars[n + 1]>>
    ELSE Append(Digits(n \div 10), DigitChars[(n % 10) + 1])

\* format!("{i}") and write!(buf, "{}", n)
format(i) == IF i < 0 THEN <<"-">> \o Digits(-i) ELSE Digits(i)

RECURSIVE encode(_)
RECURSIVE EncodeAll(_)
\* Resp::encode, Array arm: `for i in vec { buf.extend(i.encode()) }`
EncodeAll(a) == IF a = <<>> THEN <<>> ELSE encode(Head(a)) \o EncodeAll(Tail(a))

\* Resp::encode
encode(f) ==
    CASE f.t = "SimpleString" -> <<"+">> \o f.s \o CTRLF
      [] f.t = "SimpleError" -> <<"-">> \o f.s \o CTRLF
      [] f.t = "Integer" -> <<":">> \o format(f.i) \o CTRLF
      [] f.t = "BulkString" ->
            <<"$">> \o format(IF Len(f.s) # 0 THEN Len(f.s) ELSE -1) \o CTRLF
                    \o f.s \o (IF Len(f.s) # 0 THEN CTRLF ELSE <<>>)
      [] f.t = "Array" -> <<"*">> \o format(Len(f.a)) \o CTRLF \o EncodeAll(f.a)

\* the outcomes of Resp::parse_inner: Ok((value, rest)), Err(_), a panic, and
\* `len - 2` below zero (a panic in a build with overflow checks, Err without)
ParseOk(v, rest) == [r |-> "Ok", value |-> v, rest |-> rest]
ParseErr == [r |-> "Err"]
ParsePanic == [r |-> "panic"]
ParseUnderflow == [r |-> "underflow"]

\* input.iter().position(|b| *b == ch): the 0-based index of the first ch,
\* -1 for None
position(input, ch) ==
    IF \E i \in 1..Len(input) : input[i] = ch
    THEN (CHOOSE i \in 1..Len(input) :
             /\ input[i] = ch
             /\ \A j \in 1..(i - 1) : input[j] # ch) - 1
    ELSE -1

\* &input[a..b] with 0-based a and b
Slice(input, a, b) == SubSeq(input, a + 1, b)

\* the value of a run of decimal digits
RECURSIVE DigitsValue(_)
DigitsValue(d) ==
    IF d = <<>> THEN 0
    ELSE 10 * DigitsValue(SubSeq(d, 1, Len(d) - 1))
         + ((CHOOSE k \in 1..10 : DigitChars[k] = d[Len(d)]) - 1)

\* str::parse::<i64> and str::parse::<isize>: an optional sign and at least
\* one digit; ok is false for ParseIntError
parse_int(t) ==
    LET signed == t # <<>> /\ t[1] \in {"-", "+"}
        d == IF signed THEN Tail(t) ELSE t
        isDigits == d # <<>> /\ \A i \in 1..Len(d) :
                                   \E k \in 1..10 : DigitChars[k] = d[i]
    IN IF ~isDigits THEN [ok |-> FALSE, n |-> 0]
       ELSE [ok |-> TRUE,
             n |-> IF signed /\ t[1] = "-" THEN 0 - DigitsValue(d)
                   ELSE DigitsValue(d)]

\* line.strip_suffix(&[0xD]).unwrap_or(line)
StripCr(line) ==
    IF line # <<>> /\ line[Len(line)] = "\r"
    THEN SubSeq(line, 1, Len(line) - 1)
    ELSE line

RECURSIVE parse_inner(_)
RECURSIVE ParseItems(_, _, _)
\* parse_inner, '*' arm: the loop `for i in 0..length` over the rest
ParseItems(n, items, rest) ==
    IF n <= 0 THEN ParseOk(Array(items), rest)
    ELSE LET p == parse_inner(rest)
         IN IF p.r # "Ok" THEN p
            ELSE ParseItems(n - 1, Append(items, p.value), p.rest)

\* Resp::parse_inner
parse_inner(input) ==
    LET len == Len(input)
        cr == position(input, "\r")
        nl == position(input, "\n")
        \* the tail of the function: the rest after the first line
        after == IF nl = -1 THEN ParsePanic
                 ELSE ParseOk(<<>>, Slice(input, nl + 1, len))
    IN
    IF len = 0 THEN ParsePanic
    ELSE CASE input[1] = "+" ->
                 IF cr = -1 \/ cr + 2 > len THEN ParsePanic
                 ELSE ParseOk(SimpleString(Slice(input, 1, cr)),
                              Slice(input, cr + 2, len))
           [] input[1] = "-" ->
                 IF len < 2 THEN ParseUnderflow
                 ELSE IF len - 2 < 1 THEN ParseErr
                 ELSE IF after.r # "Ok" THEN after
                 ELSE ParseOk(SimpleError(Slice(input, 1, len - 2)), after.rest)
           [] input[1] = ":" ->
                 IF cr = -1 THEN ParsePanic
                 ELSE LET n == parse_int(Slice(input, 1, cr))
                      IN IF ~n.ok THEN ParseErr
                         ELSE IF after.r # "Ok" THEN after
                         ELSE ParseOk(Integer(n.n), after.rest)
           [] input[1] = "$" ->
                 LET body == Slice(input, 1, len)
                     nl1 == position(body, "\n")
                     first == StripCr(IF nl1 = -1 THEN body
                                      ELSE Slice(body, 0, nl1))
                     tail == IF nl1 = -1 THEN <<>>
                             ELSE Slice(body, nl1 + 1, Len(body))
                     nl2 == position(tail, "\n")
                     string == StripCr(IF nl2 = -1 THEN tail
                                       ELSE Slice(tail, 0, nl2))
                     n == parse_int(first)
                     length == IF n.n = -1 THEN 0 ELSE n.n
                 IN IF ~n.ok THEN ParseErr
                    ELSE IF nl1 = -1 THEN ParseErr
                    ELSE IF length < 0 \/ Len(string) < length THEN ParseErr
                    ELSE IF length = 0 THEN ParsePanic
                    ELSE IF 6 + length + ILog10(length) > len THEN ParseErr
                    ELSE ParseOk(BulkString(string),
                                 Slice(input, 6 + length + ILog10(length), len))
           [] input[1] = "*" ->
                 IF nl = -1 \/ nl - 1 < 1 THEN ParseErr
                 ELSE LET n == parse_int(Slice(input, 1, nl - 1))
                      IN IF ~n.ok THEN ParseErr
                         ELSE ParseItems(n.n, <<>>, Slice(input, nl + 1, len))
           [] OTHER -> IF nl = -1 THEN ParsePanic ELSE ParseErr

\* str::as_bytes, for the texts of the replies the master writes
as_bytes(s) ==
    CASE s = "" -> <<>>
      [] s = "a" -> <<"a">>
      [] s = "bb" -> <<"b", "b">>
      [] s = "OK" -> <<"O", "K">>
      [] s = "PONG" -> <<"P", "O", "N", "G">>
      [] s = "k" -> <<"k">>
      [] s = "SET" -> <<"S", "E", "T">>
      [] s = "EX" -> <<"E", "X">>
      [] s = "aaaaabbbbb" ->
            <<"a", "a", "a", "a", "a", "b", "b", "b", "b", "b">>

\* the bytes write_all(&resp.encode()) sends for a reply that is a string frame
ReplyBytes(f) == encode([f EXCEPT !.s = as_bytes(f.s)])

\* ----------------------------------------------------------------- commands
Set(k, v, e) == [name |-> "SET", key |-> k, value |-> v, expiry |-> e]
ReplConf(k, v) == [name |-> "REPLCONF", key |-> k, value |-> v, expiry |-> NoExpiry]
Wait(n) == [name |-> "WAIT", key |-> "", value |-> "", expiry |-> <<n>>]
NoCommand == [name |-> "", key |-> "", value |-> "", expiry |-> NoExpiry]
GetAck == ReplConf("GETACK", "*")
Ping == [name |-> "PING", key |-> "", value |-> "", expiry |-> NoExpiry]
Echo(msg) == [name |-> "ECHO", key |-> msg, value |-> "", expiry |-> NoExpiry]
Get(k) == [name |-> "GET", key |-> k, value |-> "", expiry |-> NoExpiry]
Select(index) == [name |-> "SELECT", key |-> index, value |-> "", expiry |-> NoExpiry]
PsyncCommand(id, off) == [name |-> "PSYNC", key |-> id, value |-> off, expiry |-> NoExpiry]

\* a plausible slip: every command that names a key counts as a write
is_write_command_keyed(c) == c.name \in {"SET", "GET"}

\* Command::is_write_command
is_write_command(c) == c.name = "SET"

\* a plausible slip (the variant left commented out in should_account):
\* REPLCONF GETACK is not counted
should_account_no_getack(c) ==
    \/ c.name \in {"SET", "PING"}
    \/ c.name = "REPLCONF" /\ c.key # "GETACK"

\* Command::should_account
should_account(c) == c.name \in {"SET", "PING", "REPLCONF"}

\* a plausible slip: the expiry is left out of the propagated array
CommandToRespNoExpiry(c) ==
    Array(<<BulkString(c.name), BulkString(c.key), BulkString(c.value)>>)

\* impl From<Command> for Resp
CommandToResp(c) ==
    CASE c.name = "SET" ->
            Array(<<BulkString("SET"), BulkString(c.key), BulkString(c.value)>>
                  \o (IF c.expiry # NoExpiry
                      THEN <<BulkString("EX"), Integer(c.expiry[1])>>
                      ELSE <<>>))
      [] c.name = "REPLCONF" ->
            Array(<<BulkString("REPLCONF"), BulkString(c.key), BulkString(c.value)>>)
      [] c.name = "PING" -> Array(<<BulkString("PING")>>)
      [] c.name \in {"ECHO", "GET"} -> Array(<<BulkString(c.name), BulkString(c.key)>>)

\* ------------------------------------------------- a SET on the wire
\* the SET commands a master holds after Command::parse: key and value are
\* bulk strings that are not empty, the expiry is any integer or none
WireSets ==
    {Set(k, v, e) : k \in {"k", "a", "bb"},
                    v \in {"a", "bb", "OK", "aaaaabbbbb"},
                    e \in {NoExpiry, <<0>>, <<7>>, <<100>>, <<1000>>, <<0 - 5>>}}

\* the frame with the bytes of its texts, as Resp::encode reads it
RECURSIVE ToWire(_)
ToWire(f) ==
    CASE f.t = "Array" -> Array([i \in 1..Len(f.a) |-> ToWire(f.a[i])])
      [] f.t = "Integer" -> f
      [] OTHER -> [f EXCEPT !.s = as_bytes(f.s)]

\* Resp::expect_integer
expect_integer(f) ==
    CASE f.t = "Integer" -> <<f.i>>
      [] f.t = "BulkString" ->
            (LET n == parse_int(f.s) IN IF n.ok THEN <<n.n>> ELSE NoExpiry)
      [] OTHER -> NoExpiry

\* Command::parse on the bytes of a SET: Resp::parse_inner, the name, key and
\* value as they are, the assert on the fourth element and the expiry from
\* the fifth
CommandParseSet(input) ==
    LET p == parse_inner(input)
    IN IF p.r # "Ok" THEN [r |-> p.r]
       ELSE IF p.value.t # "Array" \/ Len(p.value.a) < 3
                 \/ p.value.a[1] # BulkString(as_bytes("SET"))
       THEN ParseErr
       ELSE IF Len(p.value.a) >= 4 /\ p.value.a[4].t # "BulkString"
       THEN ParsePanic
       ELSE [r |-> "Ok", rest |-> p.rest,
             cmd |-> Set(p.value.a[2], p.value.a[3],
                         IF Len(p.value.a) >= 5
                         THEN expect_integer(p.value.a[5]) ELSE NoExpiry)]

\* HashMap::insert
Put(m, k, v) == [x \in DOMAIN m \cup {k} |-> IF x = k THEN v ELSE m[x]]
EmptyMap == [x \in {} |-> 0]


\* ---------------------------------------------------------------- start-up
IdleConn == [pc |-> "idle", cmd |-> NoCommand, wid |-> 0,
             target |-> 0, threshold |-> 0, count |-> 0, promoted |-> FALSE]
NoReply == [cmd |-> "", early |-> FALSE, resp |-> SimpleString("")]
NewReplica == [pc |-> "init", bytes_processed |-> 0, db |-> EmptyMap, read |-> 0]

\* Connection::handle's locals when the task starts: an empty buf (its
\* elements are the frames it holds, each whole or cut short), failed = false,
\* `at` the element the inner loop parses next (0: at the head of 'main);
\* with them the client's side (recv frames written in full, half: the head
\* of one more), the frames executed (log) and the replies written (out)
NewBuffer == [buf |-> <<>>, at |-> 0, failed |-> FALSE, recv |-> 0,
              half |-> FALSE, log |-> <<>>, out |-> <<>>]

\* Replica::handle's locals when it starts with nothing left over from the
\* handshake: an empty buf (its elements are the frames it holds, each whole
\* or cut short), pc at the head of 'main, `at` the element the inner loop
\* parses next, consumed counted in frames; with them the master's side
\* (recv frames written in full, half: the head of one more) and the frames
\* handled (log)
NewReplicaBuffer == [buf |-> <<>>, pc |-> "head", at |-> 0, consumed |-> 0,
                     recv |-> 0, half |-> FALSE, log |-> <<>>]

\* no frame has been handed to the codec
NoFrame == [phase |-> "none"]
\* the handshake of one replica connection: the requests the replica wrote
\* (sent) and those not yet read by the master (c2m), the frames the master
\* wrote (wrote), those not yet read by the replica (m2c) and those it read
\* (got), the replica's step in Replica::start and the master's in the Psync arm
NewHandshake == [sent |-> <<>>, c2m |-> <<>>, wrote |-> <<>>, m2c |-> <<>>,
                 got |-> <<>>, rstep |-> "send", mstep |-> "read"]

\* Server::new; Replica::new
ServerStart ==
    /\ db = EmptyMap
    /\ master_repl_offset = 0
    /\ number_of_replicas = 0
    /\ replica_offsets = EmptyMap
    /\ chan = <<>>
    /\ nwrites = 0
    /\ nwaits = 0
    /\ conn = [c \in Clients |-> IdleConn]
    /\ reply = [c \in Clients |-> NoReply]
    /\ link = [r \in Replicas |-> "none"]
    /\ rx = [r \in Replicas |-> 0]
    /\ sock = [r \in Replicas |-> <<>>]
    /\ acks = [r \in Replicas |-> <<>>]
    /\ replica = [r \in Replicas |-> NewReplica]
    /\ hs = [r \in Replicas |-> NewHandshake]
    /\ expiries = EmptyMap
    /\ timers = <<>>
    /\ io = [c \in Clients |-> NewBuffer]
    /\ rbuf = [r \in Replicas |-> NewReplicaBuffer]
    /\ streams = EmptyMap

Init ==
    /\ ServerStart
    /\ codec = NoFrame

masterVars == <<db, master_repl_offset, number_of_replicas, replica_offsets, chan,
                nwrites, nwaits, conn, reply>>
linkVars == <<link, rx, sock, acks, replica, hs>>

\* -------------------------------------------- master: SET on a client link
\* a plausible slip: the command is sent before the offset is advanced
WriteStepsSendFirst == <<"set_publish", "set_account">>

\* Connection::handle_command, after the reply: the order of the two
\* statements under `if command.is_write_command() && !self.is_promoted_to_replica`
WriteSteps == <<"set_account", "set_publish">>

\* HashMap::remove
Remove(m, k) == [x \in DOMAIN m \ {k} |-> m[x]]

\* the expiry task a SET with an expiry spawns, asleep; `later` records, for
\* the properties, that a SET of its key ran after it removed the key
NewTimer(k) == [key |-> k, pc |-> "sleep", later |-> FALSE]

\* the tasks after the Keyspace insert of a SET of k
TimersAfterInsert(k) ==
    [i \in DOMAIN timers |->
        IF timers[i].key = k /\ timers[i].pc # "sleep"
        THEN [timers[i] EXCEPT !.later = TRUE]
        ELSE timers[i]]

\* Set arm, `if let Some(expiry) = expiry`: self.expiries.write().await.insert
ExpiriesAfterSet(k, e) == IF e = NoExpiry THEN expiries ELSE Put(expiries, k, e[1])

\* Set arm, `if let Some(expiry) = expiry`: tokio::spawn of the expiry task
TimersAfterSet(ts, k, e) == IF e = NoExpiry THEN ts ELSE Append(ts, NewTimer(k))

\* Connection::handle_command, Command::Set arm and the reply write:
\* the Keyspace insert under the write lock, the ExpiryIndex insert and the
\* expiry task when an expiry is given, then "OK" written to the client.
SetApply(c, k, v, e, maxw) ==
    /\ conn[c].pc = "idle"
    /\ nwrites < maxw
    /\ db' = Put(db, k, v)
    /\ streams' = Remove(streams, k)
    /\ expiries' = ExpiriesAfterSet(k, e)
    /\ timers' = TimersAfterSet(TimersAfterInsert(k), k, e)
    /\ nwrites' = nwrites + 1
    /\ conn' = [conn EXCEPT ![c] = [IdleConn EXCEPT !.pc = WriteSteps[1],
                                                   !.cmd = Set(k, v, e),
                                                   !.wid = nwrites + 1]]
    /\ reply' = [reply EXCEPT ![c] = [cmd |-> "SET", early |-> FALSE,
                                      resp |-> BulkString("OK")]]
    /\ UNCHANGED <<master_repl_offset, number_of_replicas, replica_offsets, chan,
                   nwaits, linkVars, io, codec, rbuf>>

\* the connection after one of the two statements has run
AfterWriteStep(c) ==
    IF conn[c].pc = WriteSteps[1]
    THEN [conn[c] EXCEPT !.pc = WriteSteps[2]]
    ELSE IdleConn

\* a plausible slip: the offset counts the commands, not their bytes
AccountedOffsetCommands(c) == master_repl_offset + 1

\* the value server_replication_offset.fetch_add(resp.len()) stores
AccountedOffset(c) == master_repl_offset + RespLen(CommandToResp(conn[c].cmd))

\* Connection::handle_command: is_write_command and not promoted, fetch_add
SetAccount(c) ==
    /\ conn[c].pc = "set_account"
    /\ is_write_command(conn[c].cmd)
    /\ master_repl_offset' = AccountedOffset(c)
    /\ conn' = [conn EXCEPT ![c] = AfterWriteStep(c)]
    /\ UNCHANGED <<db, number_of_replicas, replica_offsets, chan, nwrites, nwaits,
                   reply, linkVars, sideVars>>

\* the value added to the broadcast; offAfter and wid record, for the
\* properties, the offset at the send and the order of the Keyspace insert
Published(c) == [cmd |-> conn[c].cmd, from |-> c, wid |-> conn[c].wid,
                 offAfter |-> master_repl_offset]

\* Connection::handle_command: propagation_sender.send(command.into_owned())
SetPublish(c) ==
    /\ conn[c].pc = "set_publish"
    /\ chan' = Append(chan, Published(c))
    /\ conn' = [conn EXCEPT ![c] = AfterWriteStep(c)]
    /\ UNCHANGED <<db, master_repl_offset, number_of_replicas, replica_offsets,
                   nwrites, nwaits, reply, linkVars, sideVars>>

\* ------------------------------------------- master: WAIT on a client link
\* the filter closure of the two counts in the Wait arm
CountSynced(offsets, threshold) ==
    Cardinality({r \in DOMAIN offsets : offsets[r] >= threshold})

\* Wait arm: numofreplicas parsed, server_replication_offset loaded and
\* compared with 0
WaitCall(c, n) ==
    /\ conn[c].pc = "idle"
    /\ nwaits < MaxWaits
    /\ nwaits' = nwaits + 1
    /\ conn' = [conn EXCEPT ![c] =
                   [IdleConn EXCEPT !.pc = IF master_repl_offset = 0
                                           THEN "wait_zero" ELSE "wait_count",
                                    !.cmd = Wait(n),
                                    !.target = master_repl_offset]]
    /\ UNCHANGED <<db, master_repl_offset, number_of_replicas, replica_offsets, chan,
                   nwrites, reply, linkVars, sideVars>>

\* a plausible slip: the early reply is the count of acknowledged replicas
ZeroOffsetReplySynced == CountSynced(replica_offsets, master_repl_offset)

\* the integer the Wait arm replies when the offset it loaded is 0
ZeroOffsetReply == number_of_replicas

\* Wait arm, offset 0: Integer(number_of_replicas) written, early return
WaitZero(c) ==
    /\ conn[c].pc = "wait_zero"
    /\ reply' = [reply EXCEPT ![c] = [cmd |-> conn[c].cmd.name, early |-> TRUE,
                                      resp |-> Integer(ZeroOffsetReply)]]
    /\ conn' = [conn EXCEPT ![c] = IdleConn]
    /\ UNCHANGED <<db, master_repl_offset, number_of_replicas, replica_offsets, chan,
                   nwrites, nwaits, linkVars, sideVars>>

\* the offset the filter closure compares with:
\* server_replication_offset.load(Acquire), loaded again at every count
CountThreshold(c) == master_repl_offset

\* Wait arm: first count of syncronized_replicas under the read lock
WaitCount(c) ==
    /\ conn[c].pc = "wait_count"
    /\ LET n == CountSynced(replica_offsets, CountThreshold(c))
       IN conn' = [conn EXCEPT ![c].count = n,
                               ![c].threshold = CountThreshold(c),
                               ![c].pc = IF n < conn[c].cmd.expiry[1]
                                         THEN "wait_getack" ELSE "wait_write"]
    /\ UNCHANGED <<db, master_repl_offset, number_of_replicas, replica_offsets, chan,
                   nwrites, nwaits, reply, linkVars, sideVars>>

\* Wait arm: REPLCONF GETACK * sent on the broadcast
WaitGetAck(c) ==
    /\ conn[c].pc = "wait_getack"
    /\ chan' = Append(chan, [cmd |-> GetAck, from |-> c, wid |-> 0, offAfter |-> 0])
    /\ conn' = [conn EXCEPT ![c].pc = "wait_loop"]
    /\ UNCHANGED <<db, master_repl_offset, number_of_replicas, replica_offsets,
                   nwrites, nwaits, reply, linkVars, sideVars>>

\* Wait arm: one iteration of the loop inside tokio::time::timeout
WaitPoll(c) ==
    /\ conn[c].pc = "wait_loop"
    /\ LET n == CountSynced(replica_offsets, CountThreshold(c))
       IN conn' = [conn EXCEPT ![c].count = n,
                               ![c].threshold = CountThreshold(c),
                               ![c].pc = IF n >= conn[c].cmd.expiry[1]
                                         THEN "wait_write" ELSE "wait_loop"]
    /\ UNCHANGED <<db, master_repl_offset, number_of_replicas, replica_offsets, chan,
                   nwrites, nwaits, reply, linkVars, sideVars>>

\* a plausible slip: the loop is awaited without tokio::time::timeout
WaitLoopForever(c) ==
    /\ conn[c].pc = "wait_loop"
    /\ UNCHANGED vars

\* Wait arm: the timeout elapses and the loop future is dropped
WaitTimeout(c) ==
    /\ conn[c].pc = "wait_loop"
    /\ conn' = [conn EXCEPT ![c].pc = "wait_write"]
    /\ UNCHANGED <<db, master_repl_offset, number_of_replicas, replica_offsets, chan,
                   nwrites, nwaits, reply, linkVars, sideVars>>

\* Wait arm: Integer(syncronized_replicas) written to the client
WaitWrite(c) ==
    /\ conn[c].pc = "wait_write"
    /\ reply' = [reply EXCEPT ![c] = [cmd |-> conn[c].cmd.name, early |-> FALSE,
                                      resp |-> Integer(conn[c].count)]]
    /\ conn' = [conn EXCEPT ![c] = IdleConn]
    /\ UNCHANGED <<db, master_repl_offset, number_of_replicas, replica_offsets, chan,
                   nwrites, nwaits, linkVars, sideVars>>


\* ------------------------------------------ master: the replica's connection
\* Server::start: listener.accept(), Connection::new, and the receiver
\* resubscribed for this connection; Replica::start: TcpStream::connect
Accept(r) ==
    /\ link[r] = "none"
    /\ replica[r].pc = "init"
    /\ link' = [link EXCEPT ![r] = "client"]
    /\ rx' = [rx EXCEPT ![r] = Len(chan)]
    /\ replica' = [replica EXCEPT ![r].pc = "handshake"]
    /\ UNCHANGED <<sideVars, hs, masterVars, sock, acks>>

\* Replica::start has sent PING, REPLCONF, REPLCONF (each answered by
\* Connection::handle_command without a change of state) and PSYNC;
\* Connection::handle_command, Psync arm: FULLRESYNC and the RDB frame
\* written, is_promoted_to_replica set; Connection::handle leaves its loop.
\* Replica::start reads both and enters Replica::handle.
Psync(r) ==
    /\ link[r] = "client"
    /\ replica[r].pc = "handshake"
    /\ link' = [link EXCEPT ![r] = "promoted"]
    /\ replica' = [replica EXCEPT ![r].pc = "apply"]
    /\ UNCHANGED <<sideVars, hs, masterVars, rx, sock, acks>>

\* Server::start: number_of_replicas.fetch_add(1), the forwarding task spawned
Promote(r) ==
    /\ link[r] = "promoted"
    /\ number_of_replicas' = number_of_replicas + 1
    /\ link' = [link EXCEPT ![r] = "replica"]
    /\ UNCHANGED <<sideVars, hs, db, master_repl_offset, replica_offsets, chan, nwrites, nwaits,
                   conn, reply, rx, sock, acks, replica>>

\* tokio broadcast Receiver::recv finds its next slot overwritten
Lagged(r) == Len(chan) - rx[r] > ChannelCapacity

\* a plausible slip: the received value is read without being consumed
RecvCursorPeek(r) ==
    IF Lagged(r) THEN Len(chan) - ChannelCapacity ELSE rx[r]

\* the receiver's cursor after one recv
RecvCursor(r) ==
    IF Lagged(r) THEN Len(chan) - ChannelCapacity ELSE rx[r] + 1

\* the socket's content after the select! arm of one recv: Ok(command) is
\* encoded and written; Err(Lagged) does not match the pattern, so nothing is
\* written and the loop goes on; a write to a closed socket fails and is ignored
SocketAfterRecv(r) ==
    IF Lagged(r) \/ replica[r].pc = "closed"
    THEN sock[r]
    ELSE Append(sock[r], rx[r] + 1)

\* Server::start, forwarding task, first select! arm
Forward(r) ==
    /\ link[r] = "replica"
    /\ rx[r] < Len(chan)
    /\ rx' = [rx EXCEPT ![r] = RecvCursor(r)]
    /\ sock' = [sock EXCEPT ![r] = SocketAfterRecv(r)]
    /\ UNCHANGED <<sideVars, hs, masterVars, link, acks, replica>>

\* handle_replica_connection and handle_command_from_replica: one
\* REPLCONF ACK <offset> frame read and stored under the peer address
AckRead(r) ==
    /\ link[r] = "replica"
    /\ acks[r] # <<>>
    /\ replica_offsets' = Put(replica_offsets, r, Head(acks[r]))
    /\ acks' = [acks EXCEPT ![r] = Tail(@)]
    /\ UNCHANGED <<sideVars, hs, db, master_repl_offset, number_of_replicas, chan, nwrites, nwaits,
                   conn, reply, link, rx, sock, replica>>

\* the ways a read_buf can end inside a REPLCONF ACK frame: inside one of its
\* bulk strings, or right after one of them
FrameCuts == {"inside", "boundary"}

\* handle_replica_connection: read_buf returns only the first bytes of an ACK
\* frame. Cut inside an element, Command::parse returns Err, failed is set and
\* Ok(consumed) with consumed = 0 is returned: the select! arm takes it for
\* end of stream, the loop breaks and number_of_replicas.fetch_sub(1) runs
\* with the replica still connected. Cut after an element, parse_inner indexes
\* the empty rest and panics: the task ends without fetch_sub and the socket
\* is dropped.
AckReadPartial(r, cut) ==
    /\ link[r] = "replica"
    /\ acks[r] # <<>>
    /\ number_of_replicas' = IF cut = "inside" THEN number_of_replicas - 1
                             ELSE number_of_replicas
    /\ link' = [link EXCEPT ![r] = IF cut = "inside" THEN "closed" ELSE "dead"]
    /\ UNCHANGED <<sideVars, hs, db, master_repl_offset, replica_offsets, chan, nwrites, nwaits,
                   conn, reply, rx, sock, acks, replica>>

\* the offsets of the REPLCONF ACK frames a peer may write
AckValues == {5, 27, 42}

\* a peer that completed the handshake writes REPLCONF ACK <v>
PeerAck(r, v) ==
    /\ link[r] = "replica"
    /\ Len(acks[r]) < MaxPeerAcks
    /\ acks' = [acks EXCEPT ![r] = Append(@, v)]
    /\ UNCHANGED <<sideVars, hs, masterVars, link, rx, sock, replica>>

\* handle_replica_connection reads 0 bytes (the replica closed its socket):
\* the select! loop breaks and number_of_replicas.fetch_sub(1) runs
LinkEof(r) ==
    /\ link[r] = "replica"
    /\ acks[r] = <<>>
    /\ replica[r].pc = "closed"
    /\ number_of_replicas' = number_of_replicas - 1
    /\ link' = [link EXCEPT ![r] = "closed"]
    /\ UNCHANGED <<sideVars, hs, db, master_repl_offset, replica_offsets, chan, nwrites, nwaits,
                   conn, reply, rx, sock, acks, replica>>

\* ------------------------------------------------------ the replica process
\* the frame Replica::handle parses next from its socket
NextCommand(r) == chan[sock[r][replica[r].read + 1]].cmd

\* Replica::handle: command_bytes = rest.len() - new_rest.len()
command_bytes(c) == ParsedLen(CommandToResp(c))

\* Replica::handle: bytes_processed after the command was handled
BytesAfter(r, c) ==
    IF should_account(c)
    THEN replica[r].bytes_processed + command_bytes(c)
    ELSE replica[r].bytes_processed

\* Replica::handle_command: the Keyspace after the command
ReplicaDbAfter(r, c) ==
    IF c.name = "SET" THEN Put(replica[r].db, c.key, c.value) ELSE replica[r].db

\* a plausible slip: the command is counted before GETACK is answered
AcksOfCounted(r, c) ==
    (IF c.name = "REPLCONF" /\ c.key = "GETACK"
     THEN <<BytesAfter(r, c)>> ELSE <<>>)
    \o (IF is_write_command(c) THEN <<BytesAfter(r, c)>> ELSE <<>>)

\* a plausible slip: every counted command is acknowledged, not only writes
AcksOfAccounted(r, c) ==
    (IF c.name = "REPLCONF" /\ c.key = "GETACK"
     THEN <<replica[r].bytes_processed>> ELSE <<>>)
    \o (IF should_account(c) THEN <<BytesAfter(r, c)>> ELSE <<>>)

\* the REPLCONF ACK frames one handled command makes the replica write:
\* handle_command answers GETACK with the bytes_processed before this
\* command; handle then acknowledges a write command with the updated count
AcksOf(r, c) ==
    (IF c.name = "REPLCONF" /\ c.key = "GETACK"
     THEN <<replica[r].bytes_processed>> ELSE <<>>)
    \o (IF is_write_command(c) THEN <<BytesAfter(r, c)>> ELSE <<>>)

\* Replica::handle: one command parsed from the buffer and handled
Apply(r) ==
    /\ replica[r].pc = "apply"
    /\ replica[r].read < Len(sock[r])
    /\ LET c == NextCommand(r)
       IN /\ replica' = [replica EXCEPT ![r].db = ReplicaDbAfter(r, c),
                                        ![r].bytes_processed = BytesAfter(r, c),
                                        ![r].read = @ + 1]
          /\ acks' = [acks EXCEPT ![r] = @ \o AcksOf(r, c)]
    /\ UNCHANGED <<sideVars, hs, masterVars, link, rx, sock>>

\* the replica process stops: its socket to the master closes
Close(r) ==
    /\ replica[r].pc = "apply"
    /\ replica' = [replica EXCEPT ![r].pc = "closed"]
    /\ UNCHANGED <<sideVars, hs, masterVars, link, rx, sock, acks>>

\* ------------------------------------- the replica's command stream as input
\* the commands a peer writes to the replica's socket after the handshake
StreamCommands ==
    {Ping, Get("k"), Echo("a"), Set("k", "a", NoExpiry), Set("k", "bb", <<100>>),
     GetAck}

\* Replica::handle, tcp.read_buf: the bytes of one more command, written by the
\* peer, are in the replica's socket
MasterSends(r, cmd) ==
    /\ link[r] = "replica"
    /\ Len(chan) < MaxStream
    /\ chan' = Append(chan, [cmd |-> cmd, from |-> "master", wid |-> 0,
                             offAfter |-> 0])
    /\ rx' = [rx EXCEPT ![r] = Len(chan) + 1]
    /\ sock' = [sock EXCEPT ![r] = Append(@, Len(chan) + 1)]
    /\ UNCHANGED <<db, master_repl_offset, number_of_replicas, replica_offsets,
                   nwrites, nwaits, conn, reply, link, acks, replica, hs, sideVars>>

\* --------------------------------------- master: the dispatch of one request
\* the requests each client sends in the dispatch specification: the bulk
\* strings of one array frame (a PX argument is written as the number its
\* digits parse to)
Requests(c) ==
    IF c = "c1"
    THEN {<<"PING">>, <<"GET", "k">>, <<"SET", "k", "a">>, <<"DEL", "k">>}
    ELSE {<<"ECHO", "a">>, <<"SET", "k", "bb", "PX", 100>>}

\* the names Command::parse matches; any other is UnsupportedCommand
CommandNames ==
    {"PING", "ECHO", "GET", "SET", "CONFIG", "KEYS", "SAVE", "INFO",
     "REPLCONF", "PSYNC", "WAIT", "SELECT"}

\* Command::parse on the array of a request, for the commands of Requests
CommandParse(req) ==
    IF req[1] \notin CommandNames
    THEN [ok |-> FALSE, cmd |-> NoCommand]
    ELSE [ok |-> TRUE,
          cmd |-> CASE req[1] = "PING" -> Ping
                    [] req[1] = "ECHO" -> Echo(req[2])
                    [] req[1] = "GET" -> Get(req[2])
                    [] req[1] = "SET" ->
                          Set(req[2], req[3],
                              IF Len(req) >= 5 THEN <<req[5]>> ELSE NoExpiry)
                    [] req[1] = "REPLCONF" -> ReplConf(req[2], req[3])
                    [] req[1] = "PSYNC" -> PsyncCommand(req[2], req[3])
                    [] req[1] = "SELECT" -> Select(req[2])]

\* Connection::handle_command: the frame the match on the command produces
CommandReply(cmd) ==
    CASE cmd.name = "PING" -> SimpleString("PONG")
      [] cmd.name = "ECHO" -> BulkString(cmd.key)
      [] cmd.name = "GET" ->
            BulkString(IF cmd.key \in DOMAIN db THEN db[cmd.key] ELSE "")
      [] cmd.name = "SET" -> BulkString("OK")
      [] cmd.name = "REPLCONF" -> BulkString("OK")

\* REPLICATION_ID
ReplicationId == "8371b4fb1155b71f4a04d3e1bc3e18c4a990aeeb"
\* config.port of the replica process, as text
ReplicaPort == "6380"

\* Replica::start: the four requests, in the order they are written
HandshakeRequests ==
    <<<<"PING">>,
      <<"REPLCONF", "listening-port", ReplicaPort>>,
      <<"REPLCONF", "capa", "psync2">>,
      <<"PSYNC", "?", "-1">>>>

\* Psync arm: Resp::SimpleString(format!("FULLRESYNC {} 0", id))
FullResync == SimpleString("FULLRESYNC " \o ReplicationId \o " 0")

\* Psync arm: "$<n>\r\n" followed by the n bytes of empty_rdb and no CRLF;
\* len is the number of bytes written
RdbFrame == [t |-> "Rdb", n |-> EmptyRdbLen,
             len |-> 1 + DecimalLen(EmptyRdbLen) + 2 + EmptyRdbLen]

\* Connection::handle, one request of a client: Command::parse, then either
\* the error reply of UnsupportedCommand or handle_command up to the reply
\* (the Keyspace insert of SET included); a write command goes on with the
\* two statements of WriteSteps. SELECT returns before the reply is written.
\* GET of a key that holds a stream gets Err from try_into: `?` ends
\* handle_command and handle, and the connection is dropped unanswered.
\* PSYNC writes the FULLRESYNC line and the RDB frame, sets
\* is_promoted_to_replica and returns; on a promoted connection a write
\* command is neither counted nor published.
Dispatch(c, req) ==
    /\ conn[c].pc = "idle"
    /\ LET p == CommandParse(req)
           isSet == p.ok /\ p.cmd.name = "SET"
           silent == p.ok /\ p.cmd.name = "SELECT"
           fails == p.ok /\ p.cmd.name = "GET" /\ p.cmd.key \in DOMAIN streams
           psync == p.ok /\ p.cmd.name = "PSYNC"
       IN /\ isSet => nwrites < MaxWrites
          /\ db' = IF isSet THEN Put(db, p.cmd.key, p.cmd.value) ELSE db
          /\ streams' = IF isSet THEN Remove(streams, p.cmd.key) ELSE streams
          /\ expiries' = IF isSet THEN ExpiriesAfterSet(p.cmd.key, p.cmd.expiry)
                          ELSE expiries
          /\ timers' = IF isSet
                        THEN TimersAfterSet(TimersAfterInsert(p.cmd.key),
                                            p.cmd.key, p.cmd.expiry)
                        ELSE timers
          /\ nwrites' = IF isSet THEN nwrites + 1 ELSE nwrites
          /\ reply' = IF silent \/ fails THEN reply
                       ELSE [reply EXCEPT ![c] =
                               [cmd |-> req[1], early |-> FALSE,
                                resp |-> IF psync THEN RdbFrame
                                         ELSE IF p.ok THEN CommandReply(p.cmd)
                                         ELSE SimpleError("unknown command")]]
          /\ conn' = [conn EXCEPT ![c] =
                         IF fails
                         THEN [IdleConn EXCEPT !.pc = "closed", !.cmd = p.cmd]
                         ELSE IF p.ok /\ is_write_command(p.cmd)
                                 /\ ~conn[c].promoted
                         THEN [IdleConn EXCEPT !.pc = WriteSteps[1],
                                               !.cmd = p.cmd,
                                               !.wid = nwrites']
                         ELSE [IdleConn EXCEPT
                                 !.promoted = conn[c].promoted \/ psync]]
    /\ UNCHANGED <<master_repl_offset, number_of_replicas, replica_offsets, chan,
                   nwaits, linkVars, codec, rbuf>>

\* one request on a connection whose buffer holds nothing else
Execute(c, req) == Dispatch(c, req) /\ UNCHANGED io

\* ------------------------------------------------------------ the handshake
\* Replica::start: the bytes skipped for the RDB frame,
\* rest[rdb_length + rdb_length.ilog10() + 4..]
RdbSkip(f) == f.n + ILog10(f.n) + 4

\* Replica::start: one request written to the master (write errors ignored)
ReplicaSend(r) ==
    /\ replica[r].pc = "handshake"
    /\ hs[r].rstep = "send"
    /\ LET req == HandshakeRequests[Len(hs[r].sent) + 1]
       IN hs' = [hs EXCEPT ![r].sent = Append(@, req),
                           ![r].c2m = Append(@, req),
                           ![r].rstep = "read"]
    /\ UNCHANGED <<sideVars, masterVars, link, rx, sock, acks, replica>>

\* a plausible slip: the loop is entered after the FULLRESYNC line alone
AfterFullResyncNoRdb(rest) == "done"

\* Replica::start, after the FULLRESYNC line was parsed: if rest.is_empty()
\* the buffer is read again for the RDB frame
AfterFullResync(rest) == IF rest = <<>> THEN "read_rdb" ELSE "done"

\* the replica's step after a read_buf that returned the frames buf
StepAfterRead(r, buf) ==
    CASE hs[r].rstep = "read" /\ Len(hs[r].sent) < Len(HandshakeRequests) -> "send"
      [] hs[r].rstep = "read" /\ Len(hs[r].sent) = Len(HandshakeRequests) ->
            AfterFullResync(Tail(buf))
      [] hs[r].rstep = "read_rdb" -> "done"

\* Replica::start: one client.read_buf(&mut buf) that returns what the master
\* has written so far; after the last one Replica::handle is entered
ReplicaRead(r) ==
    /\ replica[r].pc = "handshake"
    /\ hs[r].rstep \in {"read", "read_rdb"}
    /\ hs[r].m2c # <<>>
    /\ LET step == StepAfterRead(r, hs[r].m2c)
       IN /\ hs' = [hs EXCEPT ![r].got = @ \o hs[r].m2c,
                              ![r].m2c = <<>>,
                              ![r].rstep = step]
          /\ replica' = [replica EXCEPT ![r].pc = IF step = "done" THEN "apply"
                                                  ELSE "handshake"]
    /\ UNCHANGED <<sideVars, masterVars, link, rx, sock, acks>>

\* the replica process stops during the handshake
HandshakeClose(r) ==
    /\ replica[r].pc = "handshake"
    /\ replica' = [replica EXCEPT ![r].pc = "closed"]
    /\ UNCHANGED <<sideVars, masterVars, link, rx, sock, acks, hs>>

\* a plausible slip: the connection is marked promoted before the RDB is written
PsyncStepsPromoteFirst == <<"fullresync", "promote", "rdb", "done">>

\* Psync arm: the order of its statements
PsyncSteps == <<"fullresync", "rdb", "promote", "done">>

\* the step of the Psync arm that follows step m
AfterPsyncStep(m) ==
    PsyncSteps[1 + CHOOSE i \in 1..Len(PsyncSteps) : PsyncSteps[i] = m]

\* Connection::handle on the replica's connection: one request parsed and
\* handled; PING and REPLCONF are answered, PSYNC enters the Psync arm
HandshakeReply(r) ==
    /\ link[r] = "client"
    /\ hs[r].mstep = "read"
    /\ hs[r].c2m # <<>>
    /\ LET cmd == CommandParse(Head(hs[r].c2m)).cmd
       IN hs' = IF cmd.name = "PSYNC"
                THEN [hs EXCEPT ![r].c2m = Tail(@), ![r].mstep = PsyncSteps[1]]
                ELSE [hs EXCEPT ![r].c2m = Tail(@),
                                ![r].wrote = Append(@, CommandReply(cmd)),
                                ![r].m2c = Append(@, CommandReply(cmd))]
    /\ UNCHANGED <<sideVars, masterVars, link, rx, sock, acks, replica>>

\* Psync arm: write_all of the FULLRESYNC line or of the RDB frame succeeds
PsyncWrite(r) ==
    /\ hs[r].mstep \in {"fullresync", "rdb"}
    /\ LET f == IF hs[r].mstep = "fullresync" THEN FullResync ELSE RdbFrame
       IN hs' = [hs EXCEPT ![r].wrote = Append(@, f),
                           ![r].m2c = Append(@, f),
                           ![r].mstep = AfterPsyncStep(hs[r].mstep)]
    /\ UNCHANGED <<sideVars, masterVars, link, rx, sock, acks, replica>>

\* Psync arm: write_all fails (the peer has closed its socket); the error
\* is returned by handle_command and by Connection::handle, the task ends
PsyncWriteFails(r) ==
    /\ hs[r].mstep \in {"fullresync", "rdb"}
    /\ replica[r].pc = "closed"
    /\ hs' = [hs EXCEPT ![r].mstep = "failed"]
    /\ link' = [link EXCEPT ![r] = IF @ = "client" THEN "closed" ELSE @]
    /\ UNCHANGED <<sideVars, masterVars, rx, sock, acks, replica>>

\* Psync arm: is_promoted_to_replica = true; Connection::handle leaves its loop
PsyncPromote(r) ==
    /\ hs[r].mstep = "promote"
    /\ hs' = [hs EXCEPT ![r].mstep = AfterPsyncStep("promote")]
    /\ link' = [link EXCEPT ![r] = "promoted"]
    /\ UNCHANGED <<sideVars, masterVars, rx, sock, acks, replica>>

\* Connection::handle reads 0 bytes before PSYNC: the loop is left and the
\* socket shut down, the connection is not promoted
HandshakeEof(r) ==
    /\ link[r] = "client"
    /\ hs[r].mstep = "read"
    /\ hs[r].c2m = <<>>
    /\ replica[r].pc = "closed"
    /\ link' = [link EXCEPT ![r] = "closed"]
    /\ UNCHANGED <<sideVars, masterVars, rx, sock, acks, replica, hs>>

\* ------------------------------------------------------- master: key expiry
\* Set arm, first statement: self.db.write().await.insert(key, value); the
\* write guard is dropped at the end of the statement
SetInsert(c, k, v, e) ==
    /\ conn[c].pc = "idle"
    /\ nwrites < MaxWrites
    /\ db' = Put(db, k, v)
    /\ streams' = Remove(streams, k)
    /\ timers' = TimersAfterInsert(k)
    /\ nwrites' = nwrites + 1
    /\ conn' = [conn EXCEPT ![c] = [IdleConn EXCEPT !.pc = "set_expiry",
                                                   !.cmd = Set(k, v, e),
                                                   !.wid = nwrites + 1]]
    /\ UNCHANGED <<master_repl_offset, number_of_replicas, replica_offsets, chan,
                   nwaits, reply, expiries, linkVars, io, codec, rbuf>>

\* Set arm, the rest: with an expiry, the ExpiryIndex insert under its own
\* write lock and the spawn of the expiry task; then "OK" written
SetExpiry(c) ==
    /\ conn[c].pc = "set_expiry"
    /\ expiries' = ExpiriesAfterSet(conn[c].cmd.key, conn[c].cmd.expiry)
    /\ timers' = TimersAfterSet(timers, conn[c].cmd.key, conn[c].cmd.expiry)
    /\ reply' = [reply EXCEPT ![c] = [cmd |-> "SET", early |-> FALSE,
                                      resp |-> BulkString("OK")]]
    /\ conn' = [conn EXCEPT ![c].pc = WriteSteps[1]]
    /\ UNCHANGED <<db, master_repl_offset, number_of_replicas, replica_offsets,
                   chan, nwrites, nwaits, linkVars, io, codec, rbuf, streams>>

\* a plausible slip: the task clears the ExpiryIndex entry only
TimerKeepsDb(i) ==
    /\ i \in DOMAIN timers
    /\ timers[i].pc = "sleep"
    /\ timers' = [timers EXCEPT ![i].pc = "woke"]
    /\ UNCHANGED <<db, master_repl_offset, number_of_replicas, replica_offsets,
                   chan, nwrites, nwaits, conn, reply, expiries, linkVars, io,
                   codec, rbuf, streams>>

\* the expiry task after its sleep: db.write().await.remove(&key)
TimerRemoveDb(i) ==
    /\ i \in DOMAIN timers
    /\ timers[i].pc = "sleep"
    /\ db' = Remove(db, timers[i].key)
    /\ streams' = Remove(streams, timers[i].key)
    /\ timers' = [timers EXCEPT ![i].pc = "woke"]
    /\ UNCHANGED <<master_repl_offset, number_of_replicas, replica_offsets, chan,
                   nwrites, nwaits, conn, reply, expiries, linkVars, io, codec, rbuf>>

\* a plausible slip: the task leaves the ExpiryIndex entry alone when a later
\* SET of the key has spawned a task of its own
TimerKeepsNewerExpiry(i) ==
    /\ i \in DOMAIN timers
    /\ timers[i].pc = "woke"
    /\ expiries' = IF \E j \in DOMAIN timers : j > i /\ timers[j].key = timers[i].key
                   THEN expiries
                   ELSE Remove(expiries, timers[i].key)
    /\ timers' = [timers EXCEPT ![i].pc = "done"]
    /\ UNCHANGED <<db, master_repl_offset, number_of_replicas, replica_offsets,
                   chan, nwrites, nwaits, conn, reply, linkVars, io, codec, rbuf,
                   streams>>

\* the expiry task's last statement: expiries.write().await.remove(&key)
TimerRemoveExpiry(i) ==
    /\ i \in DOMAIN timers
    /\ timers[i].pc = "woke"
    /\ expiries' = Remove(expiries, timers[i].key)
    /\ timers' = [timers EXCEPT ![i].pc = "done"]
    /\ UNCHANGED <<db, master_repl_offset, number_of_replicas, replica_offsets,
                   chan, nwrites, nwaits, conn, reply, linkVars, io, codec, rbuf,
                   streams>>

\* ------------------------------------- master: the buffer of a connection
\* the frames each client writes, in order
Sent(c) ==
    IF c = "c1"
    THEN <<<<"SET", "k", "a">>, <<"DEL", "k">>, <<"GET", "k">>>>
    ELSE <<<<"SELECT", "0">>, <<"ECHO", "a">>, <<"PING">>>>

\* buf after read_buf appended the bytes up to the end of frame n and, with a
\* cut, the first bytes of frame n + 1. The bytes that complete a frame whose
\* head is no longer in buf parse as no frame ("tail").
BufferAfterRead(b, n, cut) ==
    LET completed ==
            IF ~b.half THEN b.buf
            ELSE IF b.buf # <<>> /\ b.buf[Len(b.buf)].part \in FrameCuts
            THEN [b.buf EXCEPT ![Len(b.buf)].part = "whole"]
            ELSE Append(b.buf, [id |-> b.recv + 1, part |-> "tail"])
        first == b.recv + (IF b.half THEN 2 ELSE 1)
        wholes == [i \in 1..(n - first + 1) |->
                      [id |-> first + i - 1, part |-> "whole"]]
        head == IF cut = "none" THEN <<>> ELSE <<[id |-> n + 1, part |-> cut]>>
    IN completed \o wholes \o head

\* Connection::handle, head of 'main on a connection not promoted: buf is
\* empty or failed is set, read_buf returns the bytes the client wrote since
\* the last read (sent: the frames it writes); the inner loop starts at the
\* first byte of buf
ReadFrom(c, sent, n, cut) ==
    /\ conn[c].pc = "idle"
    /\ ~conn[c].promoted
    /\ io[c].at = 0
    /\ n \in io[c].recv..Len(sent)
    /\ cut # "none" => n < Len(sent)
    /\ io[c].half => n > io[c].recv
    /\ n > io[c].recv \/ cut # "none"
    /\ io' = [io EXCEPT ![c] = [@ EXCEPT !.buf = BufferAfterRead(io[c], n, cut),
                                         !.at = 1,
                                         !.recv = n,
                                         !.half = (cut # "none")]]
    /\ UNCHANGED <<masterVars, linkVars, expiries, timers, codec, rbuf, streams>>

\* Connection::handle, one turn of the inner loop on the element at `at`.
\* A whole frame: Command::parse and, on Ok, handle_command; rest moves on
\* and failed is cleared; on UnsupportedCommand the error reply, break and
\* buf.clear(); at the end of buf, buf.clear(). A frame cut inside an element
\* or bytes that are no frame: Err, failed is set and 'main continues with
\* buf as it is. A frame cut after an element: parse_inner panics and the task
\* ends.
StepOn(c, sent) ==
    /\ io[c].at >= 1
    /\ LET b == io[c]
           el == b.buf[b.at]
           req == sent[el.id]
           p == CommandParse(req)
       IN IF el.part = "whole"
          THEN /\ Dispatch(c, req)
               /\ io' = [io EXCEPT ![c] =
                    [b EXCEPT
                       !.log = IF p.ok THEN Append(@, el.id) ELSE @,
                       !.out = IF conn'[c].pc # "closed"
                                  /\ ~(p.ok /\ p.cmd.name = "SELECT")
                               THEN (IF p.ok /\ p.cmd.name = "PSYNC"
                                     THEN Append(@, [id |-> el.id,
                                                     resp |-> FullResync])
                                     ELSE @)
                                    \o <<[id |-> el.id,
                                          resp |-> reply'[c].resp]>>
                               ELSE @,
                       !.failed = IF p.ok THEN FALSE ELSE @,
                       !.buf = IF ~p.ok \/ b.at = Len(b.buf) THEN <<>> ELSE @,
                       !.at = IF ~p.ok \/ b.at = Len(b.buf) THEN 0 ELSE @ + 1]]
          ELSE /\ conn[c].pc = "idle"
               /\ conn' = IF el.part = "boundary"
                          THEN [conn EXCEPT ![c].pc = "closed"]
                          ELSE conn
               /\ io' = [io EXCEPT ![c] = [b EXCEPT !.failed = TRUE, !.at = 0]]
               /\ UNCHANGED <<db, master_repl_offset, number_of_replicas,
                              replica_offsets, chan, nwrites, nwaits, reply,
                              linkVars, expiries, timers, codec, rbuf, streams>>

\* the buffer of a client that writes the frames of Sent
Read(c, n, cut) == ReadFrom(c, Sent(c), n, cut)
Step(c) == StepOn(c, Sent(c))

\* the frames of a peer that pipelines behind PSYNC (the ACK offset is written
\* as the number its digits parse to)
Pipelined ==
    <<<<"PSYNC", "?", "-1">>, <<"SET", "k", "a">>, <<"REPLCONF", "ACK", 5>>>>

PeerRead(c, n, cut) == ReadFrom(c, Pipelined, n, cut)
PeerStep(c) == StepOn(c, Pipelined)

\* handle_replica_connection with handle_command_from_replica, on a promoted
\* connection: the next frame of the peer is read into the task's own buffer
\* and parsed; REPLCONF ACK <offset> stores the offset in replica_offsets
\* under the peer's address, any other command is dropped; nothing is written
PeerFrame(c) ==
    /\ conn[c].promoted
    /\ io[c].at = 0
    /\ ~io[c].half
    /\ io[c].recv < Len(Pipelined)
    /\ LET cmd == CommandParse(Pipelined[io[c].recv + 1]).cmd
       IN replica_offsets' =
            IF cmd.name = "REPLCONF" /\ cmd.key = "ACK"
            THEN Put(replica_offsets, c, cmd.value)
            ELSE replica_offsets
    /\ io' = [io EXCEPT ![c].recv = @ + 1]
    /\ UNCHANGED <<db, master_repl_offset, number_of_replicas, chan, nwrites,
                   nwaits, conn, reply, linkVars, expiries, timers, codec,
                   rbuf, streams>>

\* ------------------------------------- replica: the buffer of the apply loop
\* the command frames the master writes to the replica, in order
Propagated == <<Set("k", "a", NoExpiry), GetAck, Set("k", "bb", NoExpiry)>>

\* Replica::handle, head of 'main with an empty buf: read_buf returns the bytes
\* the master wrote since the last read; the inner loop starts at the first
\* byte of buf with consumed = 0
ReplicaRecv(r, n, cut) ==
    /\ replica[r].pc = "apply"
    /\ rbuf[r].pc = "head"
    /\ rbuf[r].buf = <<>>
    /\ n \in rbuf[r].recv..Len(Propagated)
    /\ cut # "none" => n < Len(Propagated)
    /\ rbuf[r].half => n > rbuf[r].recv
    /\ n > rbuf[r].recv \/ cut # "none"
    /\ rbuf' = [rbuf EXCEPT ![r] =
                  [@ EXCEPT !.buf = BufferAfterRead(rbuf[r], n, cut),
                            !.pc = "parse", !.at = 1, !.consumed = 0,
                            !.recv = n, !.half = (cut # "none")]]
    /\ UNCHANGED <<masterVars, linkVars, expiries, timers, io, codec, streams>>

\* Replica::handle, head of 'main with an empty buf: read_buf returns 0, the
\* master closed the link, and the loop ends
ReplicaEof(r) ==
    /\ replica[r].pc = "apply"
    /\ rbuf[r].pc = "head"
    /\ rbuf[r].buf = <<>>
    /\ rbuf' = [rbuf EXCEPT ![r].pc = "ended"]
    /\ UNCHANGED <<masterVars, linkVars, expiries, timers, io, codec, streams>>

\* Replica::handle, head of 'main with bytes in buf: `if buf.is_empty()` is
\* false, nothing is read and the inner loop starts over at the first byte
ReplicaSkipRead(r) ==
    /\ replica[r].pc = "apply"
    /\ rbuf[r].pc = "head"
    /\ rbuf[r].buf # <<>>
    /\ rbuf' = [rbuf EXCEPT ![r] = [@ EXCEPT !.pc = "parse", !.at = 1,
                                             !.consumed = 0]]
    /\ UNCHANGED <<masterVars, linkVars, expiries, timers, io, codec, streams>>

\* Replica::handle, one turn of the inner loop on the element at `at`.
\* A whole frame: Command::parse, handle_command, bytes_processed and the ACK
\* of a write command, consumed and rest move on; at the end of buf the
\* consumed bytes are drained and 'main starts over. A frame cut inside an
\* element: Err, break, the consumed bytes are drained and 'main starts over
\* (`continue` when nothing was consumed). A frame cut after an element:
\* parse_inner panics and the task ends.
ReplicaParse(r) ==
    /\ rbuf[r].pc = "parse"
    /\ LET b == rbuf[r]
           el == b.buf[b.at]
           c == Propagated[el.id]
       IN CASE el.part = "whole" ->
                 /\ replica' = [replica EXCEPT
                                  ![r].db = ReplicaDbAfter(r, c),
                                  ![r].bytes_processed = BytesAfter(r, c)]
                 /\ acks' = [acks EXCEPT ![r] = @ \o AcksOf(r, c)]
                 /\ rbuf' = [rbuf EXCEPT ![r] =
                      IF b.at = Len(b.buf)
                      THEN [b EXCEPT !.log = Append(@, el.id), !.buf = <<>>,
                                     !.pc = "head", !.at = 0,
                                     !.consumed = b.consumed + 1]
                      ELSE [b EXCEPT !.log = Append(@, el.id), !.at = @ + 1,
                                     !.consumed = @ + 1]]
            [] el.part = "boundary" ->
                 /\ replica' = [replica EXCEPT ![r].pc = "closed"]
                 /\ rbuf' = [rbuf EXCEPT ![r].pc = "ended"]
                 /\ UNCHANGED acks
            [] OTHER ->
                 /\ rbuf' = [rbuf EXCEPT ![r] =
                      [b EXCEPT !.buf = SubSeq(b.buf, b.consumed + 1, Len(b.buf)),
                                !.pc = "head", !.at = 0]]
                 /\ UNCHANGED <<replica, acks>>
    /\ UNCHANGED <<masterVars, link, rx, sock, hs, expiries, timers, io, codec,
                   streams>>

\* ----------------------------------------------------- master: streams
\* A StreamId is [ms, seq]; an entry of a stream is kept as its id (the fields
\* of an entry play no part in what follows).
\* a plausible slip: the comparison looks at the milliseconds only
IdLeMillis(a, b) == a.ms < b.ms

\* PartialOrd for StreamId, `a <= b`: milliseconds first, then sequence number
IdLe(a, b) == a.ms < b.ms \/ (a.ms = b.ms /\ a.seq <= b.seq)

\* the id argument of XADD as StreamId::try_from reads it: an explicit id,
\* "<ms>-*" (ShouldGenerateSequenceNumber) or "*" (ShouldGenerateFullId)
XAddIds ==
    {[kind |-> "id", ms |-> 0, seq |-> 0], [kind |-> "id", ms |-> 0, seq |-> 1],
     [kind |-> "id", ms |-> 5, seq |-> 0], [kind |-> "id", ms |-> 5, seq |-> 3],
     [kind |-> "seq", ms |-> 0], [kind |-> "seq", ms |-> 5], [kind |-> "full"]}

\* the values get_epoch_ms() returns while the model runs
ClockValues == {5, 6}

\* Stream::insert: the id (given or generated from the entries and the clock),
\* the checks against 0-0 and against the last entry, the insert
insert(entries, spec, now) ==
    LET last == entries[Len(entries)]
        same == {i \in 1..Len(entries) : entries[i].ms = spec.ms}
        first == CHOOSE i \in same : \A j \in same : i <= j
        id == CASE spec.kind = "id" -> [ms |-> spec.ms, seq |-> spec.seq]
                [] spec.kind = "seq" ->
                      [ms |-> spec.ms,
                       seq |-> IF same # {} THEN entries[first].seq + 1
                               ELSE IF spec.ms = 0 THEN 1 ELSE 0]
                [] spec.kind = "full" ->
                      [ms |-> now,
                       seq |-> IF entries # <<>> /\ last.ms = now
                               THEN last.seq + 1 ELSE 0]
    IN IF id.ms = 0 /\ id.seq = 0
       THEN [ok |-> FALSE, err |-> "ZeroStreamId", entries |-> entries]
       ELSE IF entries # <<>> /\ IdLe(id, last)
       THEN [ok |-> FALSE, err |-> "InvalidStreamId", entries |-> entries]
       ELSE [ok |-> TRUE, id |-> id,
             entries |-> IF \E i \in 1..Len(entries) : entries[i] = id
                         THEN entries ELSE Append(entries, id)]

\* From<StreamId> for Resp: format!("{}-{}", milliseconds, sequence_number)
IdText(id) == ToString(id.ms) \o "-" \o ToString(id.seq)

\* the clock readings of one XADD, one for each of its field-value pairs
Clocks == UNION {[1..n -> ClockValues] : n \in 1..MaxPairs}

\* XAdd arm, `for pair in items.chunks(2)`: Stream::insert for each pair with
\* the current id; Ok replaces the id by the one inserted, Err is kept in err
\* and the loop goes on
RECURSIVE XAddLoop(_, _)
XAddLoop(acc, clock) ==
    IF clock = <<>> THEN acc
    ELSE LET r == insert(acc.entries, acc.id, Head(clock))
         IN XAddLoop(IF r.ok
                     THEN [entries |-> r.entries, err |-> acc.err,
                           id |-> [kind |-> "id", ms |-> r.id.ms, seq |-> r.id.seq]]
                     ELSE [acc EXCEPT !.err = r.err],
                     Tail(clock))

\* Connection::handle_command, XAdd arm, with one clock reading for each
\* field-value pair: the stream under the key (a new one for a vacant key,
\* stored even when the inserts fail), the loop over the pairs, and the
\* reply: the last error as SimpleError, or the id. A key that holds a string
\* reaches todo!() and the task panics.
XAdd(c, key, spec, clock) ==
    /\ conn[c].pc = "idle"
    /\ LET old == IF key \in DOMAIN streams THEN streams[key] ELSE <<>>
           r == XAddLoop([entries |-> old, err |-> "", id |-> spec], clock)
           ok == r.err = ""
       IN IF key \in DOMAIN db
          THEN /\ conn' = [conn EXCEPT ![c].pc = "closed", ![c].cmd.name = "XADD"]
               /\ UNCHANGED <<streams, reply>>
          ELSE /\ Len(old) < MaxXAdds
               /\ streams' = Put(streams, key, r.entries)
               /\ reply' = [reply EXCEPT ![c] =
                              [cmd |-> "XADD", early |-> FALSE,
                               resp |-> IF ok THEN BulkString(IdText(r.id))
                                        ELSE SimpleError(r.err)]]
               /\ conn' = conn
    /\ UNCHANGED <<db, master_repl_offset, number_of_replicas, replica_offsets,
                   chan, nwrites, nwaits, linkVars, expiries, timers, io, codec, rbuf>>

\* the bounds of XRANGE as the client writes them: "-", "+" or an id
RangeBounds ==
    {[kind |-> "-"], [kind |-> "+"],
     [kind |-> "id", ms |-> 0, seq |-> 2], [kind |-> "id", ms |-> 5, seq |-> 0]}

\* Stream::range: from_id is the id of `from`, or MIN when `from` is "-";
\* to_id is the id of `to`, or MAX when `from` (sic) is "+"; then the entries
\* with from_id <= id <= to_id in stored order
range(entries, from, to) ==
    IF from.kind = "+" \/ to.kind # "id"
    THEN [ok |-> FALSE, ids |-> <<>>]
    ELSE [ok |-> TRUE,
          ids |-> SelectSeq(entries,
                            LAMBDA id :
                                /\ from.kind = "id" => IdLe(from, id)
                                /\ IdLe(id, to))]

\* Connection::handle_command, XRange arm: the reply is the array of the
\* entries in range (each entry shown by its id); an Err of Stream::range
\* leaves handle_command through `?` and the connection is dropped; a key
\* that holds no stream reaches todo!()
XRange(c, key, from, to) ==
    /\ conn[c].pc = "idle"
    /\ LET r == range(streams[key], from, to)
       IN IF key \notin DOMAIN streams \/ ~r.ok
          THEN /\ conn' = [conn EXCEPT ![c].pc = "closed", ![c].cmd.name = "XRANGE"]
               /\ reply' = reply
          ELSE /\ reply' = [reply EXCEPT ![c] =
                              [cmd |-> "XRANGE", early |-> FALSE,
                               resp |-> Array([i \in 1..Len(r.ids) |->
                                                  BulkString(IdText(r.ids[i]))])]]
               /\ conn' = conn
    /\ UNCHANGED <<db, master_repl_offset, number_of_replicas, replica_offsets,
                   chan, nwrites, nwaits, linkVars, sideVars>>

\* ------------------------------------------------- the codec's round trip
\* the elements of the arrays handed to the codec
CodecItems ==
    {SimpleString(<<"O", "K">>), SimpleError(<<"e">>),
     Integer(0 - 12), Integer(0), Integer(107),
     BulkString(<<>>), BulkString(<<"a", "b">>),
     BulkString(<<"a", "a", "a", "a", "a", "b", "b", "b", "b", "b">>),
     Array(<<>>), Array(<<BulkString(<<"a">>), Integer(7)>>)}

\* the frames handed to the codec: the items and the arrays of at most
\* MaxItems of them
CodecFrames ==
    CodecItems \cup {Array(a) : a \in UNION {[1..n -> CodecItems] : n \in 1..MaxItems}}

\* a frame is handed to Resp::encode
CodecEncode ==
    /\ codec.phase = "frame"
    /\ codec' = [phase |-> "bytes", f |-> codec.f, bytes |-> encode(codec.f)]
    /\ UNCHANGED <<masterVars, linkVars, expiries, timers, io, rbuf, streams>>

\* the bytes are handed to Resp::parse_inner
CodecParse ==
    /\ codec.phase = "bytes"
    /\ codec' = [phase |-> "parsed", f |-> codec.f, bytes |-> codec.bytes,
                 res |-> parse_inner(codec.bytes)]
    /\ UNCHANGED <<masterVars, linkVars, expiries, timers, io, rbuf, streams>>

\* the longest encoding of a frame of CodecFrames: an array header of four
\* bytes and MaxItems bulk strings of ten bytes, seventeen bytes each
MaxEncoded == 4 + MaxItems * 17

\* a read delivered only the first n bytes of the encoding, and they are
\* handed to Resp::parse_inner
CodecParsePrefix(n) ==
    /\ codec.phase = "bytes"
    /\ n < Len(codec.bytes)
    /\ codec' = [phase |-> "prefix", f |-> codec.f, bytes |-> codec.bytes,
                 n |-> n, res |-> parse_inner(SubSeq(codec.bytes, 1, n))]
    /\ UNCHANGED <<masterVars, linkVars, expiries, timers, io, rbuf, streams>>

\* Connection::handle_command after the reply of a SET: the bytes the
\* forwarding task writes for the command (resp.encode()) and the bytes the
\* master adds to its offset (resp.len())
Propagate ==
    /\ codec.phase = "command"
    /\ codec' = [phase |-> "sent", cmd |-> codec.cmd,
                 bytes |-> encode(ToWire(CommandToResp(codec.cmd))),
                 added |-> RespLen(CommandToResp(codec.cmd))]
    /\ UNCHANGED <<masterVars, linkVars, expiries, timers, io, rbuf, streams>>

\* Replica::handle: Command::parse on the bytes received
ReplicaCommandParse ==
    /\ codec.phase = "sent"
    /\ codec' = [phase |-> "parsed_set", cmd |-> codec.cmd, bytes |-> codec.bytes,
                 added |-> codec.added, res |-> CommandParseSet(codec.bytes)]
    /\ UNCHANGED <<masterVars, linkVars, expiries, timers, io, rbuf, streams>>

\* ------------------------------------------------------------ specifications
ClientStep(c) ==
    \/ \E a \in SetArgs(c) : SetApply(c, a[1], a[2], a[3], MaxWrites)
    \/ SetAccount(c)
    \/ SetPublish(c)
    \/ \E n \in WaitArgs(c) : WaitCall(c, n)
    \/ WaitZero(c)
    \/ WaitCount(c)
    \/ WaitGetAck(c)
    \/ WaitPoll(c)
    \/ WaitTimeout(c)
    \/ WaitWrite(c)

LinkStep(r) ==
    \/ Accept(r)
    \/ Psync(r)
    \/ Promote(r)
    \/ Forward(r)
    \/ AckRead(r)
    \/ LinkEof(r)

ReplicaStep(r) ==
    \/ Apply(r)
    \/ Close(r)

Next ==
    \/ \E c \in Clients : ClientStep(c)
    \/ \E r \in Replicas : LinkStep(r)
    \/ \E r \in Replicas : ReplicaStep(r)

Spec == Init /\ [][Next]_vars


\* the slow replica: one client writes, the replica's connection is promoted
\* and its forwarding task runs, the replica process does not read its socket
NextLag ==
    \/ \E a \in SetArgs("c1") : SetApply("c1", a[1], a[2], a[3], LagWrites)
    \/ SetAccount("c1")
    \/ SetPublish("c1")
    \/ \E r \in Replicas : Accept(r) \/ Psync(r) \/ Promote(r) \/ Forward(r)

SpecLag == Init /\ [][NextLag]_vars

\* WAIT progress: the whole system with fewer writes. The runtime keeps polling
\* a connection task that can take a step, and the timer of
\* tokio::time::timeout fires although the loop inside it never blocks: the
\* read() of the RwLock yields once the task's budget is used up, and the
\* timeout then polls its deadline. Nothing is assumed of the replicas.
ClientStepWait(c) ==
    \/ \E a \in SetArgs(c) : SetApply(c, a[1], a[2], a[3], WaitWrites)
    \/ SetAccount(c)
    \/ SetPublish(c)
    \/ \E n \in WaitArgs(c) : WaitCall(c, n)
    \/ WaitZero(c)
    \/ WaitCount(c)
    \/ WaitGetAck(c)
    \/ WaitPoll(c)
    \/ WaitTimeout(c)
    \/ WaitWrite(c)

NextWait ==
    \/ \E c \in Clients : ClientStepWait(c)
    \/ \E r \in Replicas : LinkStep(r)
    \/ \E r \in Replicas : ReplicaStep(r)

WaitFairness ==
    \A c \in Clients :
        /\ WF_vars(WaitZero(c))
        /\ WF_vars(WaitCount(c))
        /\ WF_vars(WaitGetAck(c))
        /\ WF_vars(WaitTimeout(c))
        /\ WF_vars(WaitWrite(c))

SpecWait == Init /\ [][NextWait]_vars /\ WaitFairness

\* the replica applying a stream of commands of any kind
NextApply ==
    \E r \in Replicas :
        \/ Accept(r)
        \/ Psync(r)
        \/ Promote(r)
        \/ \E cmd \in StreamCommands : MasterSends(r, cmd)
        \/ Apply(r)
        \/ AckRead(r)

SpecApply == Init /\ [][NextApply]_vars

\* the handshake of a replica connection, step by step, while a client writes
NextHandshake ==
    \/ \E r \in Replicas :
          \/ Accept(r)
          \/ ReplicaSend(r)
          \/ ReplicaRead(r)
          \/ HandshakeClose(r)
          \/ HandshakeReply(r)
          \/ PsyncWrite(r)
          \/ PsyncWriteFails(r)
          \/ PsyncPromote(r)
          \/ HandshakeEof(r)
          \/ Promote(r)
          \/ Forward(r)
          \/ LinkEof(r)
          \/ Apply(r)
          \/ AckRead(r)
    \/ \E a \in SetArgs("c1") : SetApply("c1", a[1], a[2], a[3], WaitWrites)
    \/ SetAccount("c1")
    \/ SetPublish("c1")

SpecHandshake == Init /\ [][NextHandshake]_vars

\* a replica connection from promotion to its end, while clients write
NextLink ==
    \/ \E r \in Replicas :
          \/ Accept(r)
          \/ Psync(r)
          \/ Promote(r)
          \/ Forward(r)
          \/ AckRead(r)
          \/ \E cut \in FrameCuts : AckReadPartial(r, cut)
          \/ LinkEof(r)
          \/ Apply(r)
          \/ Close(r)
    \/ \E c \in Clients :
          \/ \E a \in SetArgs(c) : SetApply(c, a[1], a[2], a[3], MaxWrites)
          \/ SetAccount(c)
          \/ SetPublish(c)

SpecLink == Init /\ [][NextLink]_vars

\* the acknowledgements of a peer, of any values, as the master stores them
NextAcks ==
    \E r \in Replicas :
        \/ Accept(r)
        \/ Psync(r)
        \/ Promote(r)
        \/ \E v \in AckValues : PeerAck(r, v)
        \/ AckRead(r)

SpecAcks == Init /\ [][NextAcks]_vars

\* the dispatch of client requests on connections that are not promoted
NextCmd ==
    \E c \in Clients :
        \/ \E req \in Requests(c) : Execute(c, req)
        \/ SetAccount(c)
        \/ SetPublish(c)

SpecCmd == Init /\ [][NextCmd]_vars

\* SET with and without an expiry, the expiry tasks and GET, interleaved
NextExpiry ==
    \/ \E c \in Clients :
          \/ \E a \in SetArgs(c) : SetInsert(c, a[1], a[2], a[3])
          \/ SetExpiry(c)
          \/ SetAccount(c)
          \/ SetPublish(c)
          \/ Execute(c, <<"GET", "k">>)
    \/ \E i \in 1..MaxWrites :
          \/ TimerRemoveDb(i)
          \/ TimerRemoveExpiry(i)

SpecExpiry == Init /\ [][NextExpiry]_vars

\* every frame of CodecFrames encoded and its bytes parsed
InitCodec ==
    /\ ServerStart
    /\ codec \in {[phase |-> "frame", f |-> f] : f \in CodecFrames}

NextCodec ==
    \/ CodecEncode
    \/ CodecParse
    \/ \E n \in 1..MaxEncoded : CodecParsePrefix(n)

SpecCodec == InitCodec /\ [][NextCodec]_vars

\* two clients write their frames; the reads cut the byte stream anywhere
\* the offset under every kind of command: one client sends reads, writes,
\* an unknown command and WAIT, the other PSYNC with frames behind it
NextOffset ==
    \/ \E req \in Requests("c1") \cup Requests("c2") : Execute("c1", req)
    \/ \E c \in Clients : SetAccount(c) \/ SetPublish(c)
    \/ \E n \in WaitArgs("c1") : WaitCall("c1", n)
    \/ \E c \in Clients :
          \/ WaitZero(c)
          \/ WaitCount(c)
          \/ WaitGetAck(c)
          \/ WaitPoll(c)
          \/ WaitTimeout(c)
          \/ WaitWrite(c)
    \/ \E n \in 0..Len(Pipelined), cut \in {"none"} \cup FrameCuts :
          PeerRead("c2", n, cut)
    \/ PeerStep("c2")
    \/ PeerFrame("c2")

SpecOffset == Init /\ [][NextOffset]_vars

\* a SET from the master's handle_command to the replica's Command::parse
InitPropagate ==
    /\ ServerStart
    /\ codec \in {[phase |-> "command", cmd |-> c] : c \in WireSets}

NextPropagate == Propagate \/ ReplicaCommandParse

SpecPropagate == InitPropagate /\ [][NextPropagate]_vars

\* connections whose peer sends PSYNC and more frames behind it
NextPipeline ==
    \E c \in Clients :
        \/ \E n \in 0..Len(Pipelined), cut \in {"none"} \cup FrameCuts :
              PeerRead(c, n, cut)
        \/ PeerStep(c)
        \/ PeerFrame(c)

SpecPipeline == Init /\ [][NextPipeline]_vars

\* the replica's apply loop: the link is set up and the master's frames
\* arrive in reads that end anywhere
NextReplicaBuffer ==
    \E r \in Replicas :
        \/ Accept(r)
        \/ Psync(r)
        \/ Promote(r)
        \/ \E n \in 0..Len(Propagated), cut \in {"none"} \cup FrameCuts :
              ReplicaRecv(r, n, cut)
        \/ ReplicaEof(r)
        \/ ReplicaSkipRead(r)
        \/ ReplicaParse(r)

SpecReplicaBuffer == Init /\ [][NextReplicaBuffer]_vars

NextBuffer ==
    \E c \in Clients :
        \/ \E n \in 0..Len(Sent(c)), cut \in {"none"} \cup FrameCuts :
              Read(c, n, cut)
        \/ Step(c)
        \/ SetAccount(c)
        \/ SetPublish(c)

SpecBuffer == Init /\ [][NextBuffer]_vars

\* XADD, XRANGE and GET on the key of a stream, from two clients
NextStream ==
    \E c \in Clients :
        \/ \E spec \in XAddIds, clock \in Clocks : XAdd(c, "s", spec, clock)
        \/ \E from \in RangeBounds, to \in RangeBounds : XRange(c, "s", from, to)
        \/ Execute(c, <<"GET", "s">>)

SpecStream == Init /\ [][NextStream]_vars

\* ================================================================ properties
WritePositions == {i \in 1..Len(chan) : is_write_command(chan[i].cmd)}
AppliedPositions(r) == {sock[r][j] : j \in 1..replica[r].read}

\* C1: offset accounting. For every write command the master broadcast and
\* every replica that completed PSYNC, once the replica has applied the
\* command its bytes_processed is at least the master_repl_offset that held
\* right after the master broadcast the command.
C1_OffsetAccounting ==
    \A r \in Replicas : \A i \in AppliedPositions(r) \cap WritePositions :
        replica[r].bytes_processed >= chan[i].offAfter

\* the master has finished every write, the replica's connection has forwarded
\* every broadcast value and the replica has applied all it was sent
Quiescent(r) ==
    /\ \A c \in Clients : conn[c].pc = "idle"
    /\ link[r] = "replica"
    /\ replica[r].pc = "apply"
    /\ rx[r] = Len(chan)
    /\ replica[r].read = Len(sock[r])

\* C2: replication convergence. Once the master has processed its writes and
\* a connected replica has applied everything sent to it and is idle, every
\* key has the same value on the replica as on the master.
C2_Convergence ==
    \A r \in Replicas : Quiescent(r) => replica[r].db = db

\* C3: across client connections, the order of publication on the broadcast
\* is the order of application to the master Keyspace: of two SETs of one key
\* by two connections, the one applied last is broadcast last.
C3_CrossConnectionOrder ==
    \A i, j \in WritePositions :
        (i < j /\ chan[i].from # chan[j].from /\ chan[i].cmd.key = chan[j].cmd.key)
            => chan[i].wid < chan[j].wid

\* C4: the writes of one client connection are published in the order they
\* were executed, and every replica connection writes broadcast values to its
\* socket in publication order, none twice and none out of order.
C4_ConnectionOrder ==
    /\ \A i, j \in WritePositions :
          (i < j /\ chan[i].from = chan[j].from) => chan[i].wid < chan[j].wid
    /\ \A r \in Replicas : \A a, b \in 1..Len(sock[r]) :
          a < b => sock[r][a] < sock[r][b]

C4_Witness ==
    \E r \in Replicas : \E a, b \in 1..Len(sock[r]) :
        /\ a < b
        /\ {sock[r][a], sock[r][b]} \subseteq WritePositions
        /\ chan[sock[r][a]].from = chan[sock[r][b]].from

\* C5: a replica connection that lost broadcast values to a channel overflow
\* is dropped; a connection still served never has a gap in what it was sent.
C5_NoSilentLoss ==
    \A r \in Replicas :
        link[r] = "replica" =>
            \A a \in 1..(Len(sock[r]) - 1) : sock[r][a + 1] = sock[r][a] + 1

\* the encoded length of every SET a client can issue, tabulated once
ClientSets == {Set(a[1], a[2], a[3]) : a \in UNION {SetArgs(c) : c \in Clients}}

ClientSetLen == [w \in ClientSets |-> EncodeLen(CommandToResp(w))]

PublishedLen(w) ==
    IF w \in ClientSets THEN ClientSetLen[w] ELSE EncodeLen(CommandToResp(w))

RECURSIVE PublishedFrom(_, _)
PublishedFrom(q, i) ==
    IF i > Len(q) THEN 0
    ELSE (IF is_write_command(q[i].cmd) THEN PublishedLen(q[i].cmd) ELSE 0)
         + PublishedFrom(q, i + 1)

PublishedBytes(q) == PublishedFrom(q, 1)

\* C6: master_repl_offset is advanced before the command is published: in
\* every reachable state it is at least the sum of the encoded lengths of the
\* write commands published so far.
C6_OffsetBeforePublish == master_repl_offset >= PublishedBytes(chan)

C6_Witness ==
    /\ WritePositions # {}
    /\ \E c \in Clients : conn[c].pc = "set_publish"
    /\ master_repl_offset > PublishedBytes(chan)

\* replicas whose connection is open on the master and whose acknowledged
\* offset reaches t
ConnectedSynced(t) ==
    {r \in DOMAIN replica_offsets : link[r] = "replica" /\ replica_offsets[r] >= t}

\* C7: the integer WAIT replies is the number of replicas with acknowledged
\* offset >= target that are still connected; a disconnected replica is never
\* counted and the count never exceeds number_of_replicas.
C7_WaitCountsConnected ==
    [][\A c \in Clients :
          (WaitCount(c) \/ WaitPoll(c)) =>
              /\ conn'[c].count = Cardinality(ConnectedSynced(conn'[c].threshold))
              /\ conn'[c].count <= number_of_replicas]_vars

\* C8: WAIT compares replica offsets with the master_repl_offset it read when
\* it was called; writes of other connections while it is pending do not
\* raise the threshold.
C8_WaitTargetFixed ==
    \A c \in Clients :
        conn[c].pc \in {"wait_getack", "wait_loop", "wait_write"}
            => conn[c].threshold = conn[c].target

\* C9: when master_repl_offset is 0 as WAIT is called, the next step of the
\* connection writes Integer(number_of_replicas) and ends the command; nothing
\* is sent on the broadcast and the wait loop is not entered.
C9_WaitAtOffsetZero ==
    [][\A c \in Clients :
          (conn[c].cmd.name = "WAIT" /\ conn[c].target = 0 /\ conn'[c] # conn[c]) =>
              /\ reply'[c] = [cmd |-> "WAIT", early |-> TRUE,
                              resp |-> Integer(number_of_replicas)]
              /\ conn'[c].pc = "idle"
              /\ chan' = chan]_vars

C9_Witness ==
    \E c \in Clients :
        /\ reply[c].cmd = "WAIT"
        /\ reply[c].early
        /\ reply[c].resp = Integer(1)

\* C10: with target > 0, WAIT sends REPLCONF GETACK * exactly when fewer than
\* n replicas have acknowledged offset >= target; otherwise it replies that
\* number at once.
C10_GetAckIffBehind ==
    [][\A c \in Clients :
          WaitCount(c) =>
              LET synced == CountSynced(replica_offsets, conn[c].target)
              IN /\ (conn'[c].pc = "wait_getack") <=> (synced < conn[c].cmd.expiry[1])
                 /\ (conn'[c].pc = "wait_write") => (conn'[c].count = synced)]_vars

\* C11: every WAIT is answered. A connection that started a WAIT eventually
\* writes its integer reply, by the count reaching n or by the timeout, whether
\* or not any replica acknowledges; while it is still waiting the last count
\* it observed is below n, and the integer it replies is the last count.
C11_WaitReplies ==
    /\ \A c \in Clients :
          (conn[c].cmd.name = "WAIT")
              ~> (conn[c].pc = "idle" /\ reply[c].cmd = "WAIT")
    /\ [](\A c \in Clients :
            conn[c].pc = "wait_loop" => conn[c].count < conn[c].cmd.expiry[1])
    /\ [][\A c \in Clients :
            WaitWrite(c) => reply'[c].resp = Integer(conn[c].count)]_vars

\* a WAIT answered 0 after GETACK was sent and no replica ever acknowledged
C11_Witness ==
    \E c \in Clients :
        /\ reply[c] = [cmd |-> "WAIT", early |-> FALSE, resp |-> Integer(0)]
        /\ conn[c].pc = "idle"
        /\ \E i \in 1..Len(chan) : chan[i].cmd = GetAck
        /\ replica_offsets = EmptyMap

\* the bytes Resp::len gives for the commands of a sequence of published values
RECURSIVE AccountedBytes(_)
AccountedBytes(q) ==
    IF q = <<>> THEN 0
    ELSE RespLen(CommandToResp(Head(q).cmd)) + AccountedBytes(Tail(q))

\* the bytes of the commands already counted and not yet sent
PendingBytes ==
    LET pending == {c \in Clients : conn[c].pc = "set_publish"}
        bytes[S \in SUBSET pending] ==
            IF S = {} THEN 0
            ELSE LET c == CHOOSE x \in S : TRUE
                 IN RespLen(CommandToResp(conn[c].cmd)) + bytes[S \ {c}]
    IN bytes[pending]

C13_ReplicaAccounting ==
    [][\A r \in Replicas :
          Apply(r) =>
              LET c == NextCommand(r)
              IN /\ replica'[r].bytes_processed - replica[r].bytes_processed
                      = IF c.name \in {"SET", "PING", "REPLCONF"}
                        THEN EncodeLen(CommandToResp(c)) ELSE 0
                 /\ c.name = "SET" =>
                        /\ c.key \in DOMAIN replica'[r].db
                        /\ replica'[r].db[c.key] = c.value]_vars

\* the commands the replica has handled so far, in order
AppliedCommands(r) == [j \in 1..replica[r].read |-> chan[sock[r][j]].cmd]

\* a GET and a PING were handled and only the PING was counted
C13_Witness ==
    \E r \in Replicas :
        /\ \E j \in 1..replica[r].read : AppliedCommands(r)[j].name = "GET"
        /\ \E j \in 1..replica[r].read : AppliedCommands(r)[j].name = "PING"
        /\ replica[r].bytes_processed = EncodeLen(CommandToResp(Ping))

\* the encoded bytes of the SET, PING and REPLCONF commands of a sequence
RECURSIVE AccountableBytes(_)
AccountableBytes(q) ==
    IF q = <<>> THEN 0
    ELSE (IF Head(q).name \in {"SET", "PING", "REPLCONF"}
          THEN EncodeLen(CommandToResp(Head(q))) ELSE 0)
         + AccountableBytes(Tail(q))

\* C14: the answer to REPLCONF GETACK * is REPLCONF ACK v, where v is the
\* bytes of the accountable commands handled strictly before this GETACK;
\* the GETACK itself and the ACK are not in v.
C14_GetAckReply ==
    [][\A r \in Replicas :
          (Apply(r) /\ NextCommand(r) = GetAck) =>
              acks'[r] = Append(acks[r], AccountableBytes(AppliedCommands(r)))]_vars

\* a GETACK answered after a SET and an earlier GETACK were counted
C14_Witness ==
    \E r \in Replicas :
        /\ replica[r].read = 3
        /\ AppliedCommands(r)[1].name = "SET"
        /\ AppliedCommands(r)[2] = GetAck
        /\ AppliedCommands(r)[3] = GetAck
        /\ acks[r] # <<>>
        /\ acks[r][Len(acks[r])] =
              AccountableBytes(SubSeq(AppliedCommands(r), 1, 2))

C16_HandshakeReplies ==
    \A r \in Replicas :
        hs[r].mstep = "done" =>
            hs[r].wrote = <<SimpleString("PONG"), SimpleString("OK"),
                            SimpleString("OK"), FullResync, RdbFrame>>

\* p is a prefix of q
IsPrefix(p, q) == Len(p) <= Len(q) /\ p = SubSeq(q, 1, Len(p))

C18_PsyncOrder ==
    /\ \A r \in Replicas :
          /\ \A i \in 1..Len(hs[r].wrote) :
                hs[r].wrote[i].t = "Rdb" => i > 1 /\ hs[r].wrote[i - 1] = FullResync
          /\ (link[r] \in {"promoted", "replica"} \/ hs[r].mstep = "done") =>
                /\ Len(hs[r].wrote) >= 2
                /\ hs[r].wrote[Len(hs[r].wrote) - 1] = FullResync
                /\ hs[r].wrote[Len(hs[r].wrote)] = RdbFrame
          /\ hs[r].mstep = "failed" => link[r] = "closed"
    /\ number_of_replicas = Cardinality({r \in Replicas : link[r] = "replica"})

\* a connection promoted and counted after both writes
C18_Witness ==
    \E r \in Replicas :
        /\ link[r] = "replica"
        /\ number_of_replicas = 1
        /\ hs[r].mstep = "done"
        /\ Len(hs[r].wrote) = 5

\* C19: number_of_replicas is the number of promoted connections whose
\* socket is open: a connection is counted out only when the replica's socket
\* has closed, and a connection the master has ended is one it counted out.
C19_CountTracksSockets ==
    /\ number_of_replicas = Cardinality({r \in Replicas : link[r] = "replica"})
    /\ \A r \in Replicas :
          link[r] \in {"closed", "dead"} => replica[r].pc = "closed"

\* C20: the offset stored for a peer in replica_offsets never decreases,
\* whatever REPLCONF ACK frames the master receives from it.
C20_OffsetsMonotonic ==
    [][\A r \in DOMAIN replica_offsets :
          replica_offsets'[r] >= replica_offsets[r]]_vars

\* C21: every key of the ExpiryIndex is a key of the Keyspace, in every state
\* any task can observe: an expiry task removes its key from both maps in one
\* step, so no state has the key gone from one map only.
C21_ExpiryIndexInKeyspace == DOMAIN expiries \subseteq DOMAIN db

\* C30: codec round trip. For every representable frame f (simple string,
\* simple error, integer, bulk string including the empty one, array
\* including nested and empty ones), parsing the encoding of f returns f and
\* an empty rest.
C30_RoundTrip ==
    codec.phase = "parsed" => codec.res = ParseOk(codec.f, <<>>)

\* the bytes of the null bulk string
NullBulkString == <<"$", "-", "1", "\r", "\n">>

\* C22: after SET k v PX ms, once the expiry task of that SET has removed the
\* key, GET k is answered with the null bulk string, as long as no SET of k
\* ran after the removal.
C22_ExpiredKeyReadsNull ==
    \A i \in DOMAIN timers :
        (timers[i].pc # "sleep" /\ ~timers[i].later)
            => ReplyBytes(CommandReply(Get(timers[i].key))) = NullBulkString

\* a GET on the connection that sent SET k bb PX 100 was answered with the
\* null bulk string after the task of that SET ran to its end
C22_Witness ==
    /\ \E i \in DOMAIN timers : timers[i].pc = "done" /\ ~timers[i].later
    /\ reply["c2"].cmd = "GET"
    /\ ReplyBytes(reply["c2"].resp) = NullBulkString

\* C23: each complete command frame received on a client connection is
\* executed exactly once: it leaves the buffer once executed and is never
\* parsed again, also when the same read ends with the first bytes of the
\* next frame. Checked here: no frame is executed a second time.
C23_ExecutedOnce ==
    \A c \in Clients :
        \A i, j \in 1..Len(io[c].log) : io[c].log[i] = io[c].log[j] => i = j

\* the frames of a connection that were executed or answered
Handled(c) ==
    {io[c].log[i] : i \in 1..Len(io[c].log)}
        \cup {io[c].out[i].id : i \in 1..Len(io[c].out)}

\* C24: an unknown command is answered with one SimpleError and the
\* connection goes on: every well-formed command that follows it, the ones
\* buffered behind it by the same read included, is executed and answered.
\* Checked when the handler is back at its read with an empty buffer: every
\* frame received in full after an unknown command has been handled.
C24_ServedAfterUnknown ==
    \A c \in Clients :
        (io[c].at = 0 /\ io[c].buf = <<>> /\ conn[c].pc = "idle")
            => \A id \in 1..io[c].recv :
                   (\E u \in 1..(id - 1) : ~CommandParse(Sent(c)[u]).ok)
                       => id \in Handled(c)

\* C26: SELECT with any index is answered with exactly one SimpleString OK
\* and changes no state, so that the k-th reply on a connection answers its
\* k-th command.
C26_SelectReplies ==
    \A c \in Clients :
        \A i \in 1..Len(io[c].log) :
            Sent(c)[io[c].log[i]][1] = "SELECT"
                => \E j \in 1..Len(io[c].out) :
                       /\ io[c].out[j].id = io[c].log[i]
                       /\ io[c].out[j].resp = SimpleString("OK")

\* C27: stream monotonicity. Whatever the XADDs to a stream (explicit ids,
\* <ms>-* and * mixed), the ids of the successful ones are strictly
\* increasing, the stored entries are in ascending id order, and 0-0 is never
\* stored.
C27_StreamMonotonic ==
    \A key \in DOMAIN streams :
        LET e == streams[key]
        IN /\ \A i \in 1..Len(e) : ~(e[i].ms = 0 /\ e[i].seq = 0)
           /\ \A i, j \in 1..Len(e) :
                  i < j => (e[i].ms < e[j].ms
                            \/ (e[i].ms = e[j].ms /\ e[i].seq < e[j].seq))

\* a stream of MaxXAdds entries, the last reply an id the server generated
C27_Witness ==
    /\ "s" \in DOMAIN streams
    /\ Len(streams["s"]) = MaxXAdds
    /\ streams["s"][1].ms = 0
    /\ \E c \in Clients :
          /\ reply[c].cmd = "XADD"
          /\ reply[c].resp = BulkString("6-1")

\* the id XADD <ms>-* is to generate: the largest sequence number among the
\* entries with these milliseconds plus one, or 1 for milliseconds 0 and 0
\* otherwise when there is none
NextSeqId(entries, ms) ==
    LET seqs == {entries[i].seq : i \in {j \in 1..Len(entries) : entries[j].ms = ms}}
    IN [ms |-> ms,
        seq |-> IF seqs # {} THEN (CHOOSE m \in seqs : \A n \in seqs : n <= m) + 1
                ELSE IF ms = 0 THEN 1 ELSE 0]

\* C28: XADD <a>-* generates the sequence number: one more than the largest
\* among the entries with milliseconds a, or 1 if a = 0 and 0 otherwise when
\* there is none; repeated XADD s <a>-* all succeed, the sequence number
\* growing by one each time. Checked for every XADD <a>-* to a stream with no
\* entry of larger milliseconds: it is answered with that id and the id is
\* stored last.
C28_GeneratedSequence ==
    [][\A c \in Clients, a \in {0, 5}, now \in ClockValues :
          LET old == IF "s" \in DOMAIN streams THEN streams["s"] ELSE <<>>
              id == NextSeqId(old, a)
          IN (/\ XAdd(c, "s", [kind |-> "seq", ms |-> a], <<now>>)
              /\ \A i \in 1..Len(old) : old[i].ms <= a)
                 => /\ reply'[c].resp = BulkString(IdText(id))
                    /\ streams'["s"] = Append(old, id)]_vars

\* the entries XRANGE is to return: those with start <= id <= end in
\* ascending order, "-" standing for the smallest id and "+" for the largest
EntriesInRange(entries, from, to) ==
    SelectSeq(entries,
              LAMBDA id :
                  /\ from.kind = "id" => IdLe(from, id)
                  /\ to.kind = "id" => IdLe(id, to))

\* C29: XRANGE returns exactly the entries with start <= id <= end, in
\* ascending id order; "-" as start is the minimum id and "+" as end the
\* maximum id, each whatever the other bound is.
C29_XRangeInclusive ==
    [][\A c \in Clients, from \in RangeBounds \ {[kind |-> "+"]},
          to \in RangeBounds \ {[kind |-> "-"]} :
          ("s" \in DOMAIN streams /\ XRange(c, "s", from, to))
             => LET ids == EntriesInRange(streams["s"], from, to)
                IN /\ conn'[c].pc = "idle"
                   /\ reply'[c].resp =
                        Array([i \in 1..Len(ids) |-> BulkString(IdText(ids[i]))])]_vars

\* C25: GET of a key whose value is not a string (a list or a stream) is
\* answered with a SimpleError, the connection stays open and the Keyspace is
\* unchanged.
C25_GetWrongType ==
    [][\A c \in Clients :
          ("s" \in DOMAIN streams /\ Execute(c, <<"GET", "s">>))
             => /\ conn'[c].pc = "idle"
                /\ reply'[c].cmd = "GET"
                /\ reply'[c].resp.t = "SimpleError"
                /\ streams' = streams /\ db' = db]_vars


\* C31: length fidelity. For every frame f, Resp::len(f) is the number of
\* bytes Resp::encode(f) produces, including for the empty bulk string
\* (encoded as the null bulk) and for negative integers.
C31_LengthFidelity ==
    codec.phase # "frame" /\ codec.phase # "none"
        => RespLen(codec.f) = Len(codec.bytes)

\* C32: streaming safety. Resp::parse_inner applied to a strict non-empty
\* prefix of an encoded frame returns an error, which the read loop answers
\* by reading more: it neither aborts nor returns a frame.
C32_PrefixIncomplete ==
    codec.phase = "prefix" => codec.res = ParseErr


\* C33: when the expiry task started by SET k v PX ms fires, it removes k from
\* the Keyspace and then from the ExpiryIndex whatever they hold: a value and
\* an expiry entry written by a later SET of k are deleted by the earlier
\* task.
C33_TimerUnconditional ==
    [][\A i \in DOMAIN timers :
          /\ (timers[i].pc = "sleep" /\ timers'[i].pc = "woke")
                => timers[i].key \notin DOMAIN db'
          /\ (timers[i].pc = "woke" /\ timers'[i].pc = "done")
                => timers[i].key \notin DOMAIN expiries']_vars

\* both SETs with PX ran, the second one wholly before the first task woke;
\* the first task has run to its end while the second still sleeps, and
\* neither the second value nor its expiry entry is left
C33_Witness ==
    /\ nwrites = 2
    /\ Len(timers) = 2
    /\ timers[1].pc = "done" /\ ~timers[1].later
    /\ timers[2].pc = "sleep"
    /\ \A c \in Clients : conn[c].pc = "idle"
    /\ "k" \notin DOMAIN db
    /\ "k" \notin DOMAIN expiries


\* C34: when the replica's buffer ends with an incomplete frame, the apply
\* loop keeps the prefix and reads more bytes from the master before it
\* parses again: a turn of the loop that starts with bytes in the buffer is a
\* read.
C34_PartialReadsMore ==
    [][\A r \in Replicas :
          (rbuf[r].pc = "head" /\ rbuf[r].buf # <<>> /\ rbuf'[r] # rbuf[r])
              => (rbuf'[r].recv > rbuf[r].recv \/ rbuf'[r].half # rbuf[r].half)]_vars


\* C35: after a connection has processed PSYNC no frame received on it is
\* executed as a client command, the frames pipelined behind PSYNC in the
\* same read included: nothing after PSYNC is answered and the Keyspace is
\* not written.
C35_ReplicaLinkOnly ==
    \A c \in Clients :
        conn[c].promoted =>
            /\ \A i \in 1..Len(io[c].out) : io[c].out[i].id <= 1
            /\ \A i \in 1..Len(io[c].log) : io[c].log[i] <= 1
            /\ db = EmptyMap


\* C36: XADD key id f1 v1 ... fk vk with k >= 2 field-value pairs and an id
\* greater than the stream's top id succeeds: it adds one entry under that
\* id and replies the id as a bulk string m-s.
C36_XAddManyFields ==
    [][\A c \in Clients, spec \in {x \in XAddIds : x.kind = "id"},
          clock \in {k \in Clocks : Len(k) >= 2} :
          LET old == IF "s" \in DOMAIN streams THEN streams["s"] ELSE <<>>
              id == [ms |-> spec.ms, seq |-> spec.seq]
          IN (/\ XAdd(c, "s", spec, clock)
              /\ ~(id.ms = 0 /\ id.seq = 0)
              /\ old # <<>> => ~IdLe(id, old[Len(old)]))
                 => /\ reply'[c].resp = BulkString(IdText(id))
                    /\ streams'["s"] = Append(old, id)]_vars

\* C38: an XADD that replies an error (id 0-0, id equal to or smaller than
\* the stream's top id) leaves the Keyspace unchanged: no key is created for
\* a key that was absent and no entry is added to a stream.
C38_FailedXAddNoEffect ==
    [][\A c \in Clients, spec \in XAddIds, clock \in Clocks :
          (XAdd(c, "s", spec, clock) /\ reply'[c].resp.t = "SimpleError")
              => (streams' = streams /\ db' = db)]_vars


\* C37: master_repl_offset never decreases and changes only when a write
\* command is executed on a connection that is not promoted, by exactly the
\* encoded length of that command; read commands, WAIT, the REPLCONF GETACK
\* that WAIT broadcasts and the commands of a promoted connection leave it
\* unchanged.
C37_OffsetByWrites ==
    [][/\ master_repl_offset' >= master_repl_offset
       /\ master_repl_offset' # master_repl_offset =>
             \E c \in Clients :
                /\ conn'[c] # conn[c]
                /\ ~conn[c].promoted
                /\ conn[c].cmd.name = "SET"
                /\ reply[c].cmd = "SET"
                /\ master_repl_offset' =
                      master_repl_offset + EncodeLen(CommandToResp(conn[c].cmd))
       /\ \A c \in Clients :
             (conn[c].promoted /\ <<conn'[c], io'[c], reply'[c]>> # <<conn[c], io[c], reply[c]>>)
                 => master_repl_offset' = master_repl_offset]_vars

\* the SET of the first client was counted with its 27 bytes; since then a
\* WAIT has broadcast REPLCONF GETACK and the promoted connection has
\* executed the SET behind its PSYNC, and the offset is still 27
C37_Witness ==
    /\ master_repl_offset = 27
    /\ \E i \in 1..Len(chan) : chan[i].cmd = GetAck
    /\ \E i \in 1..Len(chan) : chan[i].cmd = Set("k", "a", NoExpiry)
    /\ conn["c2"].promoted
    /\ io["c2"].log = <<1, 2>>
    /\ reply["c1"].cmd = "GET"


\* C39: for every SET, with or without an expiry, encoding it the way the
\* master propagates it and parsing those bytes on the replica yields a SET
\* with the same key, the same value and the same expiry value, and consumes
\* exactly as many bytes as the master added to master_repl_offset for it.
C39_SetOnTheWire ==
    codec.phase = "parsed_set" =>
        /\ codec.res.r = "Ok"
        /\ codec.res.cmd.key = BulkString(as_bytes(codec.cmd.key))
        /\ codec.res.cmd.value = BulkString(as_bytes(codec.cmd.value))
        /\ codec.res.cmd.expiry = codec.cmd.expiry
        /\ Len(codec.bytes) - Len(codec.res.rest) = codec.added

\* SET k aaaaabbbbb with expiry 100 has been parsed by the replica from the
\* 51 bytes the master counted
C39_Witness ==
    /\ codec.phase = "parsed_set"
    /\ codec.cmd = Set("k", "aaaaabbbbb", <<100>>)
    /\ codec.res.r = "Ok"
    /\ codec.res.cmd.expiry = <<100>>
    /\ codec.res.rest = <<>>
    /\ codec.added = 51


\* C40: a promoted replica connection is sent only commands that were
\* published to the broadcast after its PSYNC completed: when the connection
\* is promoted, its receiver holds none of the commands published since the
\* accept.
C40_NothingPendingAtPsync ==
    [][\A r \in Replicas :
          (link[r] = "client" /\ link'[r] = "promoted") => rx[r] = Len(chan)]_vars

====
